---- MODULE Spec2Model ----
(***************************************************************************)
(* Model of the semantic-deduplication engine of the second-brain          *)
(* processor: lambdas/embedding_matcher.py (save_with_embedding_matching   *)
(* and the functions it calls), the item table and the vector index it     *)
(* writes, and the /delete operator action that removes items; the event   *)
(* store of lambdas/events.py; and the /merge operator action.             *)
(*                                                                         *)
(* Every Lambda invocation is a worker; each call to an external service   *)
(* (vector index query, table write, index write) is one atomic step, so   *)
(* two invocations interleave between their calls.                          *)
(*                                                                         *)
(* Similarity scores are integers in basis points: 10000 is 1.0 and 8500   *)
(* is 0.85.  Embedding vectors are short integer vectors whose norms are   *)
(* integers, so that the cosine of the code is computed exactly.           *)
(***************************************************************************)
EXTENDS Integers, Sequences, FiniteSets, TLC

VARIABLES
    table,       \* the DynamoDB table: item key <<PK, SK>> -> item
    index,       \* the S3 Vectors index: vector id -> vector record
    now,         \* the wall clock read by datetime.now
    started,     \* number of invocations started so far
    pc,          \* per worker: where its invocation stands
    item_data,   \* per worker: the classified record being saved
    embedding,   \* per worker: the vector of the record's name
    best_hit,    \* per worker: hits[0] of the index response
    similar_item,\* per worker: the item find_similar_item returned
    sk,          \* per worker: the sort key create_item generated
    result,      \* per worker: the dict the invocation returned
    trace,       \* per worker: the external calls of the invocation
    event_log,   \* the event store: event key <<pk, sk>> -> stored entry
    event,       \* the last call on events.py and how it ended
    merge,       \* the /merge command in progress
    cosine,      \* a call of cosine_similarity: its arguments and its value
    webhook,     \* the processor Lambda: its secret, its request, its effects
    process,     \* the process action: the classified message, its replies
    linker,      \* the task linker: its tasks and its call of link_task
    embedder     \* common.bedrock_embeddings: its caches and its call

vars == <<table, index, now, started, pc, item_data, embedding, best_hit,
          similar_item, sk, result, trace, event_log, event, merge, cosine,
          webhook, process, linker, embedder>>

\* the state of the event store and of the /merge command
event_vars == <<event_log, event>>
merge_vars == <<merge>>

\* the state of the other components
aux_vars == <<cosine, webhook, process, linker, embedder>>

\* the state of the save path
save_vars == <<table, index, now, started, pc, item_data, embedding, best_hit,
               similar_item, sk, result, trace>>

(***************************************************************************)
(* Bounds of the model.                                                    *)
(***************************************************************************)
MaxSaves == 2      \* invocations of the save path in one behaviour
HashMod == 2       \* stands for 10000, the modulus of the key's hash suffix
MaxEvents == 2     \* calls on the event store in one behaviour
MaxMerges == 2     \* /merge commands in one behaviour
MaxRequests == 2   \* requests to the webhook in one behaviour

Workers == {1, 2}

None == "None"     \* Python's None for a string-valued field

(***************************************************************************)
(* Program constants.                                                      *)
(***************************************************************************)
Threshold == 8500  \* similarity_threshold = 0.85

ZeroVector == <<0, 0, 0, 0, 0>>

Min(a, b) == IF a < b THEN a ELSE b
Max(a, b) == IF a > b THEN a ELSE b

(***************************************************************************)
(* Embedding vectors.  Their norms are 20, 20, 25 and 20, so                *)
(* cos(VecA, VecB) = 340/400 = 0.85 exactly, cos(VecA, VecC) = 420/500 =    *)
(* 0.84, cos(VecB, VecC) = 497/500 and VecD is orthogonal to VecA.          *)
(***************************************************************************)
VecA == <<20, 0, 0, 0, 0>>
VecB == <<17, 10, 3, 1, 1>>
VecC == <<21, 12, 6, 2, 0>>
VecD == <<0, 20, 0, 0, 0>>

RECURSIVE SumProd(_, _, _)
\* sum(a * b for a, b in zip(vec_a, vec_b)) over the first n components
SumProd(vec_a, vec_b, n) ==
    IF n = 0 THEN 0 ELSE vec_a[n] * vec_b[n] + SumProd(vec_a, vec_b, n - 1)

\* math.sqrt on the squared norms of the model's vectors (perfect squares)
Sqrt(n) == CHOOSE r \in 0..n : r * r <= n /\ n < (r + 1) * (r + 1)

\* a cosine that takes two vectors of no direction for the same vector
cosine_similarity_of_zero_is_one(vec_a, vec_b) ==
    IF Len(vec_a) = 0 \/ Len(vec_b) = 0 THEN 0
    ELSE LET dot == SumProd(vec_a, vec_b, Min(Len(vec_a), Len(vec_b)))
             norm_a == Sqrt(SumProd(vec_a, vec_a, Len(vec_a)))
             norm_b == Sqrt(SumProd(vec_b, vec_b, Len(vec_b)))
         IN  IF norm_a * norm_b = 0 THEN 10000
             ELSE (dot * 10000) \div (norm_a * norm_b)

\* cosine_similarity(vec_a, vec_b), in basis points
cosine_similarity(vec_a, vec_b) ==
    IF Len(vec_a) = 0 \/ Len(vec_b) = 0 THEN 0
    ELSE LET dot == SumProd(vec_a, vec_b, Min(Len(vec_a), Len(vec_b)))
             norm_a == Sqrt(SumProd(vec_a, vec_a, Len(vec_a)))
             norm_b == Sqrt(SumProd(vec_b, vec_b, Len(vec_b)))
         IN  IF norm_a * norm_b = 0 THEN 0
             ELSE (dot * 10000) \div (norm_a * norm_b)

(***************************************************************************)
(* The two embedding models.  They embed the same text differently.        *)
(***************************************************************************)
\* the vector Bedrock Titan returns for a text when the call succeeds
_embed_bedrock(text) ==
    CASE text = "alpha" -> VecA
      [] OTHER -> VecB

\* the vector OpenAI returns for a text when the call succeeds
_embed_openai(text) ==
    CASE text = "alpha" -> VecD
      [] OTHER -> VecC

\* a test for None in place of the truthiness test
TruthyNotNone(x) == x # None

\* Python truthiness of an optional string
Truthy(x) == x # None /\ x # ""

(***************************************************************************)
(* get_env("BEDROCK_REGION", required=True) for the three ways the          *)
(* variable can be set in the Lambda's environment: not set at all, set to  *)
(* "" or "-", set to a region.                                              *)
(***************************************************************************)
RegionEnv == {"unset", "blank", "us-east-1"}

get_env(value) ==
    CASE value = "unset" -> [raised |-> "ValueError", value |-> None]
      [] value = "blank" -> [raised |-> None, value |-> None]
      [] OTHER -> [raised |-> None, value |-> value]

\* what one provider call can do: return its vector or raise
ProviderOutcomes == {"ok", "raise"}

\* an embed_text that swallows its error and hands back the zero vector
OutcomeSwallowed(vec, providers, raised) ==
    [vector |-> IF raised # None THEN ZeroVector ELSE vec,
     providers |-> providers, raised |-> None]

Outcome(vec, providers, raised) ==
    [vector |-> vec, providers |-> providers, raised |-> raised]

(***************************************************************************)
(* embed_text(text): the set of its possible outcomes, each with the        *)
(* provider calls it made in order.                                         *)
(***************************************************************************)
embed_text(text) ==
    IF ~Truthy(text) THEN {Outcome(ZeroVector, <<>>, None)}
    ELSE UNION {
        LET bedrock_region == get_env(env)
        IN  IF bedrock_region.raised # None
            THEN {Outcome(<<>>, <<>>, bedrock_region.raised)}
            ELSE UNION {
                IF bedrock_region.value # None /\ b = "ok"
                THEN {Outcome(_embed_bedrock(text), <<"bedrock">>, None)}
                ELSE LET tried == IF bedrock_region.value # None
                                  THEN <<"bedrock">> ELSE <<>>
                     IN  {IF o = "ok"
                          THEN Outcome(_embed_openai(text),
                                       Append(tried, "openai"), None)
                          ELSE Outcome(<<>>, Append(tried, "openai"),
                                       "EmbeddingUnavailable")
                          : o \in ProviderOutcomes}
                : b \in ProviderOutcomes}
        : env \in RegionEnv}

(***************************************************************************)
(* derive_status(action)                                                   *)
(***************************************************************************)
Lower(action) ==
    CASE action = "Done" -> "done"
      [] action = "Start" -> "start"
      [] action = "People" -> "people"
      [] action = "Projects" -> "projects"
      [] OTHER -> action

derive_status(action) ==
    LET a == Lower(action)
    IN  CASE a = "start" -> "in_progress"
          [] a = "started" -> "in_progress"
          [] a = "done" -> "completed"
          [] a = "complete" -> "completed"
          [] OTHER -> "open"

(***************************************************************************)
(* Keys.  PK is "CATEGORY#{category}", SK is "{timestamp}#{category}#{h}"; *)
(* they are kept as tuples of their parts.                                  *)
(***************************************************************************)
MakePK(category) == <<"CATEGORY", category>>

MakeSK(timestamp, category, h) == <<timestamp, category, h>>

\* _make_vector_id(pk, sk): no part of a key holds a "/"
_make_vector_id(pk, key) == <<pk, key>>

\* the parts of a sort key
TimeOf(key) == key[1]
CategoryOf(key) == key[2]
SuffixOf(key) == key[3]

(***************************************************************************)
(* hash(original_text) % 10000: str hashes are salted per interpreter, so   *)
(* the suffix of a text differs from worker to worker and any two creates   *)
(* may or may not get the same one.  Only equality of suffixes matters:     *)
(* the suffixes are numbered in the order of their first use under a        *)
(* timestamp and category, so a create takes one of those in use or the     *)
(* next one.                                                                *)
(***************************************************************************)
HashSuffixes(tbl, idx, timestamp, category) ==
    LET used == {SuffixOf(k[2]) :
                    k \in {x \in DOMAIN tbl \cup DOMAIN idx :
                              /\ TimeOf(x[2]) = timestamp
                              /\ CategoryOf(x[2]) = category}}
    IN  0..Min(Cardinality(used), HashMod - 1)

\* the values datetime.now can return when the last value read was t: the
\* same instant again or the next one (0 is before the first read)
ClockReads(t) == {IF t = 0 THEN 1 ELSE t, t + 1}

(***************************************************************************)
(* Items are dicts: functions from the attribute names an item has to      *)
(* their values.  Get is dict.get(attr, default).                           *)
(***************************************************************************)
Get(item, attr, default) ==
    IF attr \in DOMAIN item THEN item[attr] ELSE default

\* process_message: result["confidence"] = min(100, max(0, confidence)), the
\* classifier's integer kept as a percentage
clamp_confidence(confidence) == Min(100, Max(0, confidence))

\* the calls of save_to_dynamodb_with_embedding: the classified record (the
\* classifier's output with original_text added and its confidence clamped;
\* the process action saves records of confidence 60 and more) and the
\* action hint.  A confidence is the number the code holds, a percentage.
SaveCalls == {
    [action |-> "open",
     item_data |-> [category |-> "Projects", name |-> "alpha",
                    status |-> "waiting", next_action |-> "call",
                    notes |-> "n1", original_text |-> "t1",
                    confidence |-> clamp_confidence(92)]],
    [action |-> "Done",
     item_data |-> [category |-> "Projects", name |-> "beta",
                    status |-> "open", next_action |-> None,
                    notes |-> None, original_text |-> "t2",
                    confidence |-> clamp_confidence(80)]],
    [action |-> "start",
     item_data |-> [category |-> "People", name |-> "alpha",
                    status |-> None, next_action |-> "mail",
                    notes |-> "n2", original_text |-> "t3",
                    confidence |-> clamp_confidence(150)]],
    [action |-> "open",
     item_data |-> [category |-> "Projects", name |-> None,
                    status |-> "completed", next_action |-> None,
                    notes |-> None, original_text |-> "t4",
                    confidence |-> clamp_confidence(70)]],
    [action |-> "open",
     item_data |-> [category |-> "People", name |-> "",
                    status |-> "open", next_action |-> None,
                    notes |-> "n2", original_text |-> "t5",
                    confidence |-> clamp_confidence(60)]]}

(***************************************************************************)
(* The vector index.                                                       *)
(***************************************************************************)
\* the record index_vector puts under its vector id
VectorRecord(pk, key, vec, metadata) ==
    [Id |-> _make_vector_id(pk, key), Vector |-> vec, pk |-> pk, sk |-> key,
     category |-> metadata.category, name |-> metadata.name,
     status |-> metadata.status]

\* the index is created with Metric="COSINE": the score of a stored vector
IndexScore(queryVector, vec) == cosine_similarity(queryVector, vec)

\* a query without the category filter
FilteredAnyCategory(idx, category) == {idx[id] : id \in DOMAIN idx}

\* the records the category filter of query_vectors lets through
Filtered(idx, category) ==
    {idx[id] : id \in {i \in DOMAIN idx : idx[i].category = category}}

\* the hits that can stand first in the response: the response is ordered
\* by descending score, and hits of equal score come in any order
FirstHits(idx, category, queryVector) ==
    LET cands == Filtered(idx, category)
    IN  {[score |-> IndexScore(queryVector, r.Vector), metadata |-> r] :
         r \in {c \in cands : \A d \in cands :
                   IndexScore(queryVector, d.Vector)
                       <= IndexScore(queryVector, c.Vector)}}

NoHit == <<>>
NoItem == <<>>
NoVector == <<>>
NoKey == <<>>
NoResult ==
    [action |-> None, sk |-> NoKey, similarity |-> 0, category |-> None,
     status |-> None]
\* what an invocation has done so far: the embedding providers it called, in
\* order, its calls on the index and the table, the error it raised,
\* whether the item of its first hit was in the table when it queried, and
\* whether the table then held no item of its name in its category
NoTrace ==
    [providers |-> <<>>, queries |-> 0, puts |-> 0, updates |-> 0,
     indexed |-> 0, raised |-> None, in_store |-> FALSE,
     no_such_item |-> FALSE]

\* the items of a name in a category
ItemsNamed(tbl, category, name) ==
    {k \in DOMAIN tbl : /\ k[1] = MakePK(category)
                        /\ Get(tbl[k], "name", None) = name}

(***************************************************************************)
(* The functions of embedding_matcher.py on the table and the index.       *)
(***************************************************************************)
\* serialize_embedding: each component x becomes Decimal(str(x))
serialize_embedding(vec) == [i \in 1..Len(vec) |-> <<"Decimal", vec[i]>>]

\* [float(e) for e in stored]: each Decimal read back as a float
embedding_list(stored) == [i \in 1..Len(stored) |-> stored[i][2]]

\* find_similar_item with an exclusive threshold
find_similar_item_exclusive(tbl, idx, category, message_embedding, threshold) ==
    LET hits == FirstHits(idx, category, message_embedding)
    IN  IF hits = {} THEN {[hit |-> NoHit, item |-> NoItem]}
        ELSE {LET key == <<h.metadata.pk, h.metadata.sk>>
              IN  IF h.score > threshold /\ key \in DOMAIN tbl
                  THEN [hit |-> h, item |-> tbl[key]]
                  ELSE [hit |-> h, item |-> NoItem]
              : h \in hits}

\* a find_similar_item that goes on to the best hit that is in the table
find_similar_item_in_store(tbl, idx, category, message_embedding, threshold) ==
    LET hits == FirstHits(idx, category, message_embedding)
        stored == {r \in Filtered(idx, category) :
                      /\ IndexScore(message_embedding, r.Vector) >= threshold
                      /\ <<r.pk, r.sk>> \in DOMAIN tbl}
        best == {r \in stored : \A d \in stored :
                    IndexScore(message_embedding, d.Vector)
                        <= IndexScore(message_embedding, r.Vector)}
    IN  IF hits = {} THEN {[hit |-> NoHit, item |-> NoItem]}
        ELSE UNION {
              LET key == <<h.metadata.pk, h.metadata.sk>>
              IN  IF h.score >= threshold /\ key \in DOMAIN tbl
                  THEN {[hit |-> h, item |-> tbl[key]]}
                  ELSE IF h.score >= threshold /\ best # {}
                  THEN {[hit |-> h, item |-> tbl[<<r.pk, r.sk>>]] : r \in best}
                  ELSE {[hit |-> h, item |-> NoItem]}
              : h \in hits}

\* find_similar_item: the (first hit, returned item) pairs a successful
\* query can end in; item is NoItem where the function returns None
find_similar_item(tbl, idx, category, message_embedding, threshold) ==
    LET hits == FirstHits(idx, category, message_embedding)
    IN  IF hits = {} THEN {[hit |-> NoHit, item |-> NoItem]}
        ELSE {LET key == <<h.metadata.pk, h.metadata.sk>>
              IN  IF h.score >= threshold /\ key \in DOMAIN tbl
                  THEN [hit |-> h, item |-> tbl[key]]
                  ELSE [hit |-> h, item |-> NoItem]
              : h \in hits}

\* whether the item a hit names is in the table
InStore(tbl, hit) ==
    /\ DOMAIN hit # {}
    /\ <<hit.metadata.pk, hit.metadata.sk>> \in DOMAIN tbl

\* the attributes update_item sets
UpdatedAttrs == {"status", "next_action", "notes", "updated_at",
                 "original_text"}

\* an update_item that leaves the status of the item as it is
update_item_status_kept(tbl, pk, key, data, original_text, timestamp) ==
    LET k == <<pk, key>>
        old == IF k \in DOMAIN tbl THEN tbl[k] ELSE [PK |-> pk, SK |-> key]
        set == [status |-> Get(old, "status", Get(data, "status", "open")),
                next_action |-> Get(data, "next_action", None),
                notes |-> Get(data, "notes", None),
                updated_at |-> timestamp,
                original_text |-> original_text]
        new == [a \in DOMAIN old \cup UpdatedAttrs |->
                   IF a \in UpdatedAttrs THEN set[a] ELSE old[a]]
    IN  [x \in DOMAIN tbl \cup {k} |-> IF x = k THEN new ELSE tbl[x]]

\* an update_item that also overwrites the name
update_item_renaming(tbl, pk, key, data, original_text, timestamp) ==
    LET k == <<pk, key>>
        old == IF k \in DOMAIN tbl THEN tbl[k] ELSE [PK |-> pk, SK |-> key]
        set == [status |-> Get(data, "status", "open"),
                next_action |-> Get(data, "next_action", None),
                notes |-> Get(data, "notes", None),
                updated_at |-> timestamp,
                original_text |-> original_text,
                name |-> Get(data, "name", None)]
        new == [a \in DOMAIN old \cup DOMAIN set |->
                   IF a \in DOMAIN set THEN set[a] ELSE old[a]]
    IN  [x \in DOMAIN tbl \cup {k} |-> IF x = k THEN new ELSE tbl[x]]

\* update_item: the table after the SET expression on key <<pk, key>>; as in
\* DynamoDB, the item is made (of its key and the attributes set) when the
\* table has none under the key
update_item(tbl, pk, key, data, original_text, timestamp) ==
    LET k == <<pk, key>>
        old == IF k \in DOMAIN tbl THEN tbl[k] ELSE [PK |-> pk, SK |-> key]
        set == [status |-> Get(data, "status", "open"),
                next_action |-> Get(data, "next_action", None),
                notes |-> Get(data, "notes", None),
                updated_at |-> timestamp,
                original_text |-> original_text]
        new == [a \in DOMAIN old \cup UpdatedAttrs |->
                   IF a \in UpdatedAttrs THEN set[a] ELSE old[a]]
    IN  [x \in DOMAIN tbl \cup {k} |-> IF x = k THEN new ELSE tbl[x]]

\* the item create_item builds
NewItem(category, data, vec, timestamp, h) ==
    [PK |-> MakePK(category),
     SK |-> MakeSK(timestamp, category, h),
     created_at |-> timestamp,
     status |-> Get(data, "status", "open"),
     name |-> Get(data, "name", None),
     next_action |-> Get(data, "next_action", None),
     notes |-> Get(data, "notes", None),
     original_text |-> data.original_text,
     confidence |-> Get(data, "confidence", 0),
     category |-> category,
     embedding |-> serialize_embedding(vec)]

\* table.put_item(Item=item)
put_item(tbl, item) ==
    LET k == <<item.PK, item.SK>>
    IN  [x \in DOMAIN tbl \cup {k} |-> IF x = k THEN item ELSE tbl[x]]

\* a create_item that writes no index record
index_vector_skipped(idx, pk, key, vec, metadata) == idx

\* index_vector as create_item calls it
index_vector(idx, pk, key, vec, metadata) ==
    LET r == VectorRecord(pk, key, vec, metadata)
    IN  [x \in DOMAIN idx \cup {r.Id} |-> IF x = r.Id THEN r ELSE idx[x]]

\* the similarity save_with_embedding_matching returns with "updated"
UpdatedSimilarity(vec, item) ==
    LET stored == embedding_list(Get(item, "embedding", <<>>))
    IN  IF Len(stored) > 0 THEN cosine_similarity(vec, stored) ELSE 0

\* table.delete_item(Key=k)
delete_item(tbl, k) == [x \in DOMAIN tbl \ {k} |-> tbl[x]]

\* item["SK"].startswith(item_id + "#") for an id made of leading parts
StartsWith(key, item_id) ==
    /\ Len(item_id) < Len(key)
    /\ SubSeq(key, 1, Len(item_id)) = item_id

\* the ids /delete can be given to some effect: the timestamp of an item, or
\* its timestamp and category
DeleteIds(tbl) ==
    {SubSeq(k[2], 1, 1) : k \in DOMAIN tbl}
        \cup {SubSeq(k[2], 1, 2) : k \in DOMAIN tbl}

\* no call on the event store yet (a call is recorded with the function
\* called, the number handed to it, the event it built, the error it raised,
\* whether its write replaced an entry, and the number of calls so far); no
\* /merge command in progress (a command is recorded with its ids, the
\* items its scan found, its reply, the number of commands so far, whether
\* the last command died between its two writes, whether this one is that
\* command given again, and the table the command would leave if it ran
\* through the first time)
NoCall ==
    [op |-> None, input |-> 0, event |-> <<>>, raised |-> None,
     replaced |-> FALSE, calls |-> 0]
NoMerge ==
    [pc |-> "idle", from_id |-> <<>>, into_id |-> <<>>, from_item |-> NoItem,
     into_item |-> NoItem, reply |-> None, commands |-> 0, crashed |-> FALSE,
     again |-> FALSE, whole |-> <<>>]

\* nothing has been asked of the other components
NoCosine == [vec_a |-> <<>>, vec_b |-> <<>>, score |-> <<>>]
NoRequest == <<>>
NoProcess ==
    [pc |-> "idle", result |-> <<>>, started_at |-> 0, replies |-> <<>>,
     table |-> <<>>, index |-> <<>>, invocations |-> 0]
NoLinker ==
    [calls |-> 0, use_bedrock |-> FALSE, user_id |-> None,
     message_text |-> None, action |-> None, msg_emb |-> <<>>,
     response |-> <<>>, before |-> <<>>]
NoEmbedder ==
    [calls |-> 0, op |-> None, texts |-> <<>>, use_bedrock |-> FALSE,
     failing |-> 0, providers |-> <<>>, raised |-> None, result |-> <<>>,
     before |-> <<>>, cache |-> <<>>, lru |-> <<>>]

\* the save path before its first invocation, with an empty table and index
SaveIdle ==
    /\ table = <<>>
    /\ index = <<>>
    /\ now = 0
    /\ started = 0
    /\ pc = [p \in Workers |-> "idle"]
    /\ item_data = [p \in Workers |-> <<>>]
    /\ embedding = [p \in Workers |-> NoVector]
    /\ best_hit = [p \in Workers |-> NoHit]
    /\ similar_item = [p \in Workers |-> NoItem]
    /\ sk = [p \in Workers |-> NoKey]
    /\ result = [p \in Workers |-> NoResult]
    /\ trace = [p \in Workers |-> NoTrace]

\* an empty event store and no /merge command
OperatorIdle ==
    /\ event_log = <<>>
    /\ event = NoCall
    /\ merge = NoMerge

AuxIdle ==
    /\ cosine = NoCosine
    /\ webhook = NoRequest
    /\ process = NoProcess
    /\ linker = NoLinker
    /\ embedder = NoEmbedder

Init ==
    /\ table = <<>>
    /\ index = <<>>
    /\ now = 0
    /\ started = 0
    /\ pc = [p \in Workers |-> "idle"]
    /\ item_data = [p \in Workers |-> <<>>]
    /\ embedding = [p \in Workers |-> NoVector]
    /\ best_hit = [p \in Workers |-> NoHit]
    /\ similar_item = [p \in Workers |-> NoItem]
    /\ sk = [p \in Workers |-> NoKey]
    /\ result = [p \in Workers |-> NoResult]
    /\ trace = [p \in Workers |-> NoTrace]
    /\ event_log = <<>>
    /\ event = NoCall
    /\ merge = NoMerge
    /\ AuxIdle

\* an invocation that has made its last call returns (or raises) at once:
\* nothing else runs between the call and the return
Running == \A q \in Workers : pc[q] \notin {"done", "failed"}

Raise(p, what) == [trace[p] EXCEPT !.raised = what]

(***************************************************************************)
(* save_to_dynamodb_with_embedding up to its first call on the table or     *)
(* the index.  The status is derived from the action hint; a nameless       *)
(* record goes straight to create_item with the zero vector; a named one    *)
(* is embedded (a computation of the invocation alone, which commutes with  *)
(* the steps of the others) and the index is queried.  The workers are      *)
(* alike: a message goes to the first free one.                             *)
(***************************************************************************)
Begin(p) ==
    /\ Running
    /\ pc[p] = "idle"
    /\ \A q \in Workers : q < p => pc[q] # "idle"
    /\ started < MaxSaves
    /\ started' = started + 1

\* a save that keeps the status of the record and ignores the hint
WithStatusKept(call) == call.item_data

\* item_data["status"] = derive_status(action)
WithStatus(call) ==
    [call.item_data EXCEPT !.status = derive_status(call.action)]

Embedded(o) ==
    [NoTrace EXCEPT !.providers = o.providers, !.raised = o.raised]

\* not item_data.get("name"): create_item(category, item_data, [0.0] * 1536)
SaveNameless(p) ==
    /\ Begin(p)
    /\ \E call \in SaveCalls :
          /\ ~Truthy(Get(call.item_data, "name", None))
          /\ item_data' = [item_data EXCEPT ![p] = WithStatus(call)]
    /\ embedding' = [embedding EXCEPT ![p] = ZeroVector]
    /\ trace' = [trace EXCEPT ![p] = NoTrace]
    /\ pc' = [pc EXCEPT ![p] = "put_item"]
    /\ UNCHANGED <<table, index, now, best_hit, similar_item, sk, result>>
    /\ UNCHANGED <<event_vars, merge_vars, aux_vars>>

\* embed_text raises: the error leaves save_with_embedding_matching
SaveEmbeddingFails(p) ==
    /\ Begin(p)
    /\ \E call \in SaveCalls :
          /\ Truthy(Get(call.item_data, "name", None))
          /\ item_data' = [item_data EXCEPT ![p] = WithStatus(call)]
          /\ \E o \in embed_text(call.item_data.name) :
                /\ o.raised # None
                /\ trace' = [trace EXCEPT ![p] = Embedded(o)]
    /\ pc' = [pc EXCEPT ![p] = "failed"]
    /\ UNCHANGED <<table, index, now, embedding, best_hit, similar_item, sk,
                   result>>
    /\ UNCHANGED <<event_vars, merge_vars, aux_vars>>

\* a save path that takes a failed query for "no match" and goes on to create
SaveQueryFailsNoMatch(p) ==
    /\ Begin(p)
    /\ \E call \in SaveCalls :
          /\ Truthy(Get(call.item_data, "name", None))
          /\ item_data' = [item_data EXCEPT ![p] = WithStatus(call)]
          /\ \E o \in embed_text(call.item_data.name) :
                /\ o.raised = None
                /\ embedding' = [embedding EXCEPT ![p] = o.vector]
                /\ trace' = [trace EXCEPT ![p] =
                       [Embedded(o) EXCEPT !.queries = 1,
                                           !.raised = "SimilarityQueryFailed"]]
    /\ pc' = [pc EXCEPT ![p] = "put_item"]
    /\ UNCHANGED <<table, index, now, best_hit, similar_item, sk, result>>
    /\ UNCHANGED <<event_vars, merge_vars, aux_vars>>

\* query_vectors raises: the error leaves find_similar_item and the save path
SaveQueryFails(p) ==
    /\ Begin(p)
    /\ \E call \in SaveCalls :
          /\ Truthy(Get(call.item_data, "name", None))
          /\ item_data' = [item_data EXCEPT ![p] = WithStatus(call)]
          /\ \E o \in embed_text(call.item_data.name) :
                /\ o.raised = None
                /\ embedding' = [embedding EXCEPT ![p] = o.vector]
                /\ trace' = [trace EXCEPT ![p] =
                       [Embedded(o) EXCEPT !.queries = 1,
                                           !.raised = "SimilarityQueryFailed"]]
    /\ pc' = [pc EXCEPT ![p] = "failed"]
    /\ UNCHANGED <<table, index, now, best_hit, similar_item, sk, result>>
    /\ UNCHANGED <<event_vars, merge_vars, aux_vars>>

\* find_similar_item returns: an item to update, or None
SaveFindSimilar(p) ==
    /\ Begin(p)
    /\ \E call \in SaveCalls :
          /\ Truthy(Get(call.item_data, "name", None))
          /\ item_data' = [item_data EXCEPT ![p] = WithStatus(call)]
          /\ \E o \in embed_text(call.item_data.name) :
                /\ o.raised = None
                /\ embedding' = [embedding EXCEPT ![p] = o.vector]
                /\ \E f \in find_similar_item(table, index,
                                              call.item_data.category,
                                              o.vector, Threshold) :
                      /\ trace' = [trace EXCEPT ![p] =
                             [Embedded(o) EXCEPT
                                 !.queries = 1,
                                 !.in_store = InStore(table, f.hit),
                                 !.no_such_item =
                                     ItemsNamed(table,
                                                call.item_data.category,
                                                call.item_data.name) = {}]]
                      /\ best_hit' = [best_hit EXCEPT ![p] = f.hit]
                      /\ similar_item' = [similar_item EXCEPT ![p] = f.item]
                      /\ pc' = [pc EXCEPT ![p] =
                             IF DOMAIN f.item # {} THEN "update_item"
                             ELSE "put_item"]
    /\ UNCHANGED <<table, index, now, sk, result>>
    /\ UNCHANGED <<event_vars, merge_vars, aux_vars>>

(***************************************************************************)
(* The match branch: update_item, then the result with the similarity       *)
(* computed from the embedding stored in the item that was found.           *)
(***************************************************************************)
UpdateItem(p) ==
    /\ Running
    /\ pc[p] = "update_item"
    /\ \E timestamp \in ClockReads(now) :
          /\ now' = timestamp
          /\ table' = update_item(table, similar_item[p].PK,
                                  similar_item[p].SK, item_data[p],
                                  item_data[p].original_text, timestamp)
    /\ result' = [result EXCEPT ![p] =
           [action |-> "updated", sk |-> similar_item[p].SK,
            similarity |-> UpdatedSimilarity(embedding[p], similar_item[p]),
            category |-> item_data[p].category,
            status |-> item_data[p].status]]
    /\ trace' = [trace EXCEPT ![p].updates = @ + 1]
    /\ pc' = [pc EXCEPT ![p] = "done"]
    /\ UNCHANGED <<index, started, item_data, embedding, best_hit,
                   similar_item, sk>>
    /\ UNCHANGED <<event_vars, merge_vars, aux_vars>>

(***************************************************************************)
(* A create_item that looks into the table again: when an item of the      *)
(* name is there by now, the invocation turns to updating it.              *)
(***************************************************************************)
CreateItemPutUnlessPresent(p) ==
    /\ Running
    /\ pc[p] = "put_item"
    /\ LET present == ItemsNamed(table, item_data[p].category,
                                 Get(item_data[p], "name", None))
       IN  IF Truthy(Get(item_data[p], "name", None)) /\ present # {}
           THEN /\ \E k \in present :
                      similar_item' = [similar_item EXCEPT ![p] = table[k]]
                /\ pc' = [pc EXCEPT ![p] = "update_item"]
                /\ UNCHANGED <<table, now, sk, trace>>
           ELSE /\ \E timestamp \in ClockReads(now) :
                   \E h \in HashSuffixes(table, index, timestamp,
                                         item_data[p].category) :
                      LET item == NewItem(item_data[p].category,
                                          item_data[p], embedding[p],
                                          timestamp, h)
                      IN  /\ now' = timestamp
                          /\ table' = put_item(table, item)
                          /\ sk' = [sk EXCEPT ![p] = item.SK]
                /\ trace' = [trace EXCEPT ![p].puts = @ + 1]
                /\ pc' = [pc EXCEPT ![p] = "index_vector"]
                /\ UNCHANGED similar_item
    /\ UNCHANGED <<index, started, item_data, embedding, best_hit, result>>
    /\ UNCHANGED <<event_vars, merge_vars, aux_vars>>

(***************************************************************************)
(* create_item, first write: the item is put under a key made of the        *)
(* clock, the category and the hash suffix of the text.                     *)
(***************************************************************************)
CreateItemPut(p) ==
    /\ Running
    /\ pc[p] = "put_item"
    /\ \E timestamp \in ClockReads(now) :
       \E h \in HashSuffixes(table, index, timestamp,
                             item_data[p].category) :
          LET item == NewItem(item_data[p].category, item_data[p],
                              embedding[p], timestamp, h)
          IN  /\ now' = timestamp
              /\ table' = put_item(table, item)
              /\ sk' = [sk EXCEPT ![p] = item.SK]
    /\ trace' = [trace EXCEPT ![p].puts = @ + 1]
    /\ pc' = [pc EXCEPT ![p] = "index_vector"]
    /\ UNCHANGED <<index, started, item_data, embedding, best_hit,
                   similar_item, result>>
    /\ UNCHANGED <<event_vars, merge_vars, aux_vars>>

(***************************************************************************)
(* create_item, second write: the vector is indexed and "created" returned. *)
(***************************************************************************)
CreateItemIndex(p) ==
    /\ Running
    /\ pc[p] = "index_vector"
    /\ index' = index_vector(index, MakePK(item_data[p].category), sk[p],
                             embedding[p],
                             [category |-> item_data[p].category,
                              name |-> IF Truthy(Get(item_data[p], "name", None))
                                       THEN item_data[p].name ELSE "",
                              status |-> Get(item_data[p], "status", "open")])
    /\ result' = [result EXCEPT ![p] =
           [action |-> "created", sk |-> sk[p], similarity |-> 0,
            category |-> item_data[p].category,
            status |-> item_data[p].status]]
    /\ trace' = [trace EXCEPT ![p].indexed = @ + 1]
    /\ pc' = [pc EXCEPT ![p] = "done"]
    /\ UNCHANGED <<table, now, started, item_data, embedding, best_hit,
                   similar_item, sk>>
    /\ UNCHANGED <<event_vars, merge_vars, aux_vars>>

\* batch_put_vector raises: the error leaves create_item and the save path
IndexFails(p) ==
    /\ Running
    /\ pc[p] = "index_vector"
    /\ pc' = [pc EXCEPT ![p] = "failed"]
    /\ trace' = [trace EXCEPT ![p] = Raise(p, "IndexWriteFailed")]
    /\ UNCHANGED <<table, index, now, started, item_data, embedding,
                   best_hit, similar_item, sk, result>>
    /\ UNCHANGED <<event_vars, merge_vars, aux_vars>>

(***************************************************************************)
(* /delete ID: the first scanned item whose SK starts with ID# is deleted   *)
(* from the table (the scan returns the items in no particular order); the  *)
(* index is left as it is.  The operator's command runs between the         *)
(* invocations of the save path, or while one of them is about to update    *)
(* the very item that is deleted.                                           *)
(***************************************************************************)
Holds(q, k) ==
    /\ pc[q] = "update_item"
    /\ k = <<similar_item[q].PK, similar_item[q].SK>>

Delete ==
    /\ Running
    /\ \E item_id \in DeleteIds(table), k \in DOMAIN table :
          /\ \/ \A q \in Workers : pc[q] = "idle"
             \/ \E q \in Workers : Holds(q, k)
          /\ StartsWith(table[k].SK, item_id)
          /\ table' = delete_item(table, k)
    /\ UNCHANGED <<index, now, started, pc, item_data, embedding, best_hit,
                   similar_item, sk, result, trace>>
    /\ UNCHANGED <<event_vars, merge_vars, aux_vars>>

\* the invocation is over: the worker is free for the next message
Return(p) ==
    /\ pc[p] \in {"done", "failed"}
    /\ pc' = [pc EXCEPT ![p] = "idle"]
    /\ item_data' = [item_data EXCEPT ![p] = <<>>]
    /\ embedding' = [embedding EXCEPT ![p] = NoVector]
    /\ best_hit' = [best_hit EXCEPT ![p] = NoHit]
    /\ similar_item' = [similar_item EXCEPT ![p] = NoItem]
    /\ sk' = [sk EXCEPT ![p] = NoKey]
    /\ result' = [result EXCEPT ![p] = NoResult]
    /\ trace' = [trace EXCEPT ![p] = NoTrace]
    /\ UNCHANGED <<table, index, now, started>>
    /\ UNCHANGED <<event_vars, merge_vars, aux_vars>>

Next ==
    \/ \E p \in Workers : SaveNameless(p)
    \/ \E p \in Workers : SaveEmbeddingFails(p)
    \/ \E p \in Workers : SaveQueryFails(p)
    \/ \E p \in Workers : SaveFindSimilar(p)
    \/ \E p \in Workers : UpdateItem(p)
    \/ \E p \in Workers : CreateItemPut(p)
    \/ \E p \in Workers : CreateItemIndex(p)
    \/ \E p \in Workers : IndexFails(p)
    \/ \E p \in Workers : Return(p)
    \/ Delete

Spec == Init /\ [][Next]_vars

(***************************************************************************)
(* The state after "alpha" was saved once: its item in the table and its    *)
(* vector in the index.  SpecSeeded follows the save path from there.       *)
(***************************************************************************)
SeedData ==
    [category |-> "Projects", name |-> "alpha", status |-> "open",
     next_action |-> "call", notes |-> "n1", original_text |-> "t1",
     confidence |-> 92]

InitSeeded ==
    /\ table = put_item(<<>>, NewItem("Projects", SeedData, VecA, 1, 0))
    /\ index = index_vector(<<>>, MakePK("Projects"),
                            MakeSK(1, "Projects", 0), VecA,
                            [category |-> "Projects", name |-> "alpha",
                             status |-> "open"])
    /\ now = 1
    /\ started = 0
    /\ pc = [p \in Workers |-> "idle"]
    /\ item_data = [p \in Workers |-> <<>>]
    /\ embedding = [p \in Workers |-> NoVector]
    /\ best_hit = [p \in Workers |-> NoHit]
    /\ similar_item = [p \in Workers |-> NoItem]
    /\ sk = [p \in Workers |-> NoKey]
    /\ result = [p \in Workers |-> NoResult]
    /\ trace = [p \in Workers |-> NoTrace]
    /\ event_log = <<>>
    /\ event = NoCall
    /\ merge = NoMerge
    /\ AuxIdle

SpecSeeded == InitSeeded /\ [][Next]_vars

(***************************************************************************)
(* The event store of lambdas/events.py.                                   *)
(*                                                                         *)
(* An event is the record of its fields.  Keys are kept as tuples of their *)
(* parts: pk "EVENT#{source}" is <<"EVENT", source>>, and a sort key is    *)
(* the tuple of the parts its f-string joins with "#".  A datetime is      *)
(* <<second, microsecond>>; a formatted timestamp is the second it names.  *)
(* confidence_score, similarity_score and threshold_used are held in       *)
(* hundredths: 100 is 1.0.                                                  *)
(***************************************************************************)
\* format_iso8601_zulu(dt): strftime("%Y-%m-%dT%H:%M:%SZ") keeps the second
\* and drops the microseconds
format_iso8601_zulu(dt) == dt[1]

\* the datetimes datetime.now returns to format_iso8601_zulu
Instants == {<<1, 0>>, <<1, 7>>, <<2, 0>>}

\* a message is classified and searched for after it was received
After(m) == {dt \in Instants : dt[1] >= m.received_at}

\* MessageReceived.build_pk and MessageClassified.build_pk
build_pk(source) == <<"EVENT", source>>

\* MessageReceived.build_sk
Received_build_sk(received_at, source_id) == <<received_at, source_id>>

\* MessageClassified.build_sk
Classified_build_sk(classified_at, sequence) ==
    <<classified_at, "CLASSIFIED", sequence>>

\* the MessageReceived model
MessageReceived(raw_text, source, source_id, chat_id, received_at) ==
    [event_type |-> "MessageReceived", timestamp |-> received_at,
     raw_text |-> raw_text, source |-> source, source_id |-> source_id,
     chat_id |-> chat_id, received_at |-> received_at]

\* the messages received: two telegram messages of one second, an email,
\* and the first telegram message delivered again after it was edited
Messages ==
    {MessageReceived("a", "telegram", "m1", "c1", 1),
     MessageReceived("b", "telegram", "m2", None, 1),
     MessageReceived("a", "email", "m1", None, 2),
     MessageReceived("a2", "telegram", "m1", "c1", 1)}

\* Field(..., ge=0.0, le=1.0)
InUnitInterval(score) == score >= 0 /\ score <= 100

\* the MessageClassified model: pydantic validates the fields on construction
MessageClassified(timestamp, classification, confidence_score, classified_by, classified_at, item_pk, item_sk, source_event_sk, source, raw_text) ==
    IF ~InUnitInterval(confidence_score)
    THEN [raised |-> "ValidationError", event |-> <<>>]
    ELSE [raised |-> None,
          event |-> [event_type |-> "MessageClassified",
                     timestamp |-> timestamp,
                     classification |-> classification,
                     confidence_score |-> confidence_score,
                     classified_by |-> classified_by,
                     classified_at |-> classified_at,
                     item_pk |-> item_pk, item_sk |-> item_sk,
                     source_event_sk |-> source_event_sk,
                     source |-> source, raw_text |-> raw_text]]

\* the MessageSimilar model
MessageSimilar(timestamp, similar_event_sk, similarity_score, threshold_used, search_model, searched_at, link_created, linked_item_pk, linked_item_sk, source_event_sk) ==
    IF ~InUnitInterval(similarity_score) \/ ~InUnitInterval(threshold_used)
    THEN [raised |-> "ValidationError", event |-> <<>>]
    ELSE [raised |-> None,
          event |-> [event_type |-> "MessageSimilar",
                     timestamp |-> timestamp,
                     similar_event_sk |-> similar_event_sk,
                     similarity_score |-> similarity_score,
                     threshold_used |-> threshold_used,
                     search_model |-> search_model,
                     searched_at |-> searched_at,
                     link_created |-> link_created,
                     linked_item_pk |-> linked_item_pk,
                     linked_item_sk |-> linked_item_sk,
                     source_event_sk |-> source_event_sk]]

\* get_pk of the three models
get_pk(e) ==
    CASE e.event_type = "MessageReceived" -> build_pk(e.source)
      [] e.event_type = "MessageClassified" -> build_pk(e.source)
      [] e.event_type = "MessageSimilar" -> <<"EVENT", "telegram">>

\* get_sk of the three models
get_sk(e) ==
    CASE e.event_type = "MessageReceived" ->
             Received_build_sk(e.received_at, e.source_id)
      [] e.event_type = "MessageClassified" ->
             Classified_build_sk(e.classified_at, 1)
      [] e.event_type = "MessageSimilar" -> <<e.searched_at, "SIMILAR", 1>>

\* a percentage passed through unclamped
confidence_unclamped(confidence_pct) == confidence_pct

\* min(100, max(0, confidence_pct)) / 100.0, in hundredths
confidence_from_pct(confidence_pct) == Min(100, Max(0, confidence_pct))

\* MessageClassified.create_from_classification, the clock reading dt
create_from_classification(raw_text, category, confidence_pct, classified_by, source_message, dt) ==
    LET now_iso == format_iso8601_zulu(dt)
        confidence_score == confidence_from_pct(confidence_pct)
        category_lower == Lower(category)
        item_id == SubSeq(source_message.source_id, 1,
                          Min(16, Len(source_message.source_id)))
    IN  MessageClassified(now_iso, category, confidence_score, classified_by,
                          now_iso, <<category_lower, item_id>>, "PROFILE",
                          get_sk(source_message), source_message.source,
                          raw_text)

\* dict.update, and a dict cut down to some of its keys
Update(d, more) ==
    [a \in DOMAIN d \cup DOMAIN more |->
        IF a \in DOMAIN more THEN more[a] ELSE d[a]]
Only(d, attrs) == [a \in DOMAIN d \cap attrs |-> d[a]]

\* the item append_event builds of an event: the variant's attributes, the
\* optional ones only when they are set
EventItem(e) ==
    LET item == [pk |-> get_pk(e), sk |-> get_sk(e),
                 event_type |-> e.event_type, timestamp |-> e.timestamp]
    IN  CASE e.event_type = "MessageReceived" ->
                 Update(item,
                        Only(e, {"raw_text", "source", "source_id",
                                 "received_at"}
                                \cup (IF Truthy(e.chat_id) THEN {"chat_id"}
                                      ELSE {})))
          [] e.event_type = "MessageClassified" ->
                 Update(item,
                        Only(e, {"classification", "confidence_score",
                                 "classified_by", "classified_at", "item_pk",
                                 "item_sk", "source_event_sk", "source",
                                 "raw_text"}))
          [] e.event_type = "MessageSimilar" ->
                 Update(item,
                        Only(e, {"similarity_score", "threshold_used",
                                 "search_model", "searched_at",
                                 "link_created", "source_event_sk"}
                                \cup {a \in {"similar_event_sk",
                                             "linked_item_pk",
                                             "linked_item_sk"} :
                                         Len(e[a]) > 0}))

\* an event store that keeps the entry it has under a key
put_event_if_absent(log, item) ==
    LET k == <<item.pk, item.sk>>
    IN  [x \in DOMAIN log \cup {k} |->
            IF x \in DOMAIN log THEN log[x] ELSE item]

\* dynamodb.put_item(TableName, Item) on the event store
put_event(log, item) ==
    LET k == <<item.pk, item.sk>>
    IN  [x \in DOMAIN log \cup {k} |-> IF x = k THEN item ELSE log[x]]

\* append_event(event)
append_event(log, e) == put_event(log, EventItem(e))

\* the key of an event
EventKey(e) == <<get_pk(e), get_sk(e)>>

\* MaxEvents calls are made on the event store
Room == event.calls < MaxEvents

Called(op, input, e, raised) ==
    [op |-> op, input |-> input, event |-> e, raised |-> raised,
     replaced |-> IF raised = None THEN EventKey(e) \in DOMAIN event_log
                  ELSE FALSE,
     calls |-> event.calls + 1]

\* the constructor has rejected its arguments
Rejected(op, input, raised) ==
    [NoCall EXCEPT !.op = op, !.input = input, !.raised = raised,
                   !.calls = event.calls + 1]

\* the percentages a classifier hands to create_from_classification, and the
\* scores MessageClassified is constructed with directly
Percents == {0 - 5, 55, 150}
Scores == {0 - 10, 50, 150}

\* append_event(MessageReceived)
AppendReceived ==
    /\ \E m \in Messages :
          /\ Room
          /\ event_log' = append_event(event_log, m)
          /\ event' = Called("append_event", 0, m, None)
    /\ UNCHANGED <<table, index, now, started, pc, item_data, embedding,
                   best_hit, similar_item, sk, result, trace, merge_vars, aux_vars>>

\* create_from_classification of a message's classification, then
\* append_event
AppendClassified ==
    /\ \E m \in Messages, pct \in Percents :
       \E dt \in After(m) :
          LET made == create_from_classification(m.raw_text, "People", pct,
                                                 "model", m, dt)
          IN  IF made.raised # None
              THEN /\ Room
                   /\ event' = Rejected("create_from_classification", pct,
                                        made.raised)
                   /\ UNCHANGED event_log
              ELSE /\ Room
                   /\ event_log' = append_event(event_log, made.event)
                   /\ event' = Called("create_from_classification", pct,
                                      made.event, None)
    /\ UNCHANGED <<table, index, now, started, pc, item_data, embedding,
                   best_hit, similar_item, sk, result, trace, merge_vars, aux_vars>>

\* MessageClassified(...) with a score of the caller's, then append_event
ConstructClassified ==
    /\ \E m \in Messages, score \in Scores :
       \E dt \in After(m) :
          LET at == format_iso8601_zulu(dt)
              made == MessageClassified(at, "Projects", score, "model", at,
                                        <<"projects", m.source_id>>,
                                        "PROFILE", get_sk(m), m.source,
                                        m.raw_text)
          IN  IF made.raised # None
              THEN /\ Room
                   /\ event' = Rejected("MessageClassified", score,
                                        made.raised)
                   /\ UNCHANGED event_log
              ELSE /\ Room
                   /\ event_log' = append_event(event_log, made.event)
                   /\ event' = Called("MessageClassified", score, made.event,
                                      None)
    /\ UNCHANGED <<table, index, now, started, pc, item_data, embedding,
                   best_hit, similar_item, sk, result, trace, merge_vars, aux_vars>>

\* append_event(MessageSimilar) for the search made for a message
AppendSimilar ==
    /\ \E m \in Messages :
       \E dt \in After(m) :
          LET at == format_iso8601_zulu(dt)
              made == MessageSimilar(at, NoKey, 0, 85, "titan", at, FALSE,
                                     NoKey, NoKey, get_sk(m))
          IN  /\ made.raised = None
              /\ Room
              /\ event_log' = append_event(event_log, made.event)
              /\ event' = Called("append_event", 0, made.event, None)
    /\ UNCHANGED <<table, index, now, started, pc, item_data, embedding,
                   best_hit, similar_item, sk, result, trace, merge_vars, aux_vars>>

\* put_item raises ClientError: append_event raises it again, nothing stored
AppendFails ==
    /\ Room
    /\ \E m \in Messages :
          event' = Called("append_event", 0, m, "ClientError")
    /\ UNCHANGED <<table, index, now, started, pc, item_data, embedding,
                   best_hit, similar_item, sk, result, trace, event_log,
                   merge_vars, aux_vars>>

NextEvents ==
    \/ AppendReceived
    \/ AppendClassified
    \/ ConstructClassified
    \/ AppendSimilar
    \/ AppendFails

SpecEvents == Init /\ [][NextEvents]_vars

(***************************************************************************)
(* The /merge operator action of lambdas/actions/merge.py (the merge       *)
(* branch of debug_duplicates_auto.py makes the same two writes): the      *)
(* target item is updated with the merged notes and the source's status,   *)
(* then the source item is deleted.  Each write is one step; the           *)
(* invocation can die between its steps.  An item id is the leading part   *)
(* of a sort key, the timestamp.                                           *)
(***************************************************************************)
\* the ids an operator gives to /merge
MergeIds(tbl) == {SubSeq(k[2], 1, 1) : k \in DOMAIN tbl}

\* the id as the command spells it
IdText(item_id) == ToString(item_id[1])

\* the scan loop: the items it can leave in from_item and in into_item (an
\* item that starts with from_id is never taken for into_item)
ScanFrom(tbl, from_id) ==
    {tbl[k] : k \in {x \in DOMAIN tbl : StartsWith(tbl[x].SK, from_id)}}
ScanInto(tbl, from_id, into_id) ==
    {tbl[k] : k \in {x \in DOMAIN tbl :
                        /\ ~StartsWith(tbl[x].SK, from_id)
                        /\ StartsWith(tbl[x].SK, into_id)}}

\* merged_notes joined with a blank line, or the target's notes when
\* neither item has notes
merged_notes(from_id, from_item, into_item) ==
    LET from_part ==
            IF Truthy(Get(from_item, "notes", None))
            THEN <<"[From " \o IdText(from_id) \o "]: " \o from_item.notes>>
            ELSE <<>>
        into_part ==
            IF Truthy(Get(into_item, "notes", None))
            THEN <<"[Original]: " \o into_item.notes>>
            ELSE <<>>
        parts == from_part \o into_part
    IN  IF Len(parts) = 0 THEN Get(into_item, "notes", None)
        ELSE IF Len(parts) = 1 THEN parts[1]
        ELSE parts[1] \o "\n\n" \o parts[2]

\* the update_item of /merge: SET notes and status on the target's key
merge_update(tbl, from_id, from_item, into_item) ==
    LET k == <<into_item.PK, into_item.SK>>
        old == IF k \in DOMAIN tbl THEN tbl[k]
               ELSE [PK |-> into_item.PK, SK |-> into_item.SK]
        set == [notes |-> merged_notes(from_id, from_item, into_item),
                status |-> Get(from_item, "status",
                               Get(into_item, "status", "open"))]
    IN  [x \in DOMAIN tbl \cup {k} |->
            IF x = k THEN Update(old, set) ELSE tbl[x]]

\* the table one uninterrupted merge leaves
merge_whole(tbl, from_id, from_item, into_item) ==
    delete_item(merge_update(tbl, from_id, from_item, into_item),
                <<from_item.PK, from_item.SK>>)

\* the items /merge works on: three projects and a person, saved and
\* indexed; two of them have no notes
MergeData ==
    <<[category |-> "Projects", name |-> "alpha", status |-> "open",
       next_action |-> "call", notes |-> "n1", original_text |-> "t1",
       confidence |-> clamp_confidence(92)],
      [category |-> "Projects", name |-> "beta", status |-> "completed",
       next_action |-> None, notes |-> None, original_text |-> "t2",
       confidence |-> clamp_confidence(80)],
      [category |-> "People", name |-> "alpha", status |-> "in_progress",
       next_action |-> "mail", notes |-> "n2", original_text |-> "t3",
       confidence |-> clamp_confidence(150)],
      [category |-> "Projects", name |-> "gamma", status |-> "open",
       next_action |-> None, notes |-> "", original_text |-> "t4",
       confidence |-> clamp_confidence(70)]>>

MergeVectors == <<VecA, VecB, VecA, VecB>>

RECURSIVE Saved(_)
Saved(n) ==
    IF n = 0 THEN [table |-> <<>>, index |-> <<>>]
    ELSE LET before == Saved(n - 1)
             data == MergeData[n]
             item == NewItem(data.category, data, MergeVectors[n], n, 0)
         IN  [table |-> put_item(before.table, item),
              index |-> index_vector(before.index, item.PK, item.SK,
                                     MergeVectors[n],
                                     [category |-> data.category,
                                      name |-> data.name,
                                      status |-> data.status])]

InitMerge ==
    /\ table = Saved(Len(MergeData)).table
    /\ index = Saved(Len(MergeData)).index
    /\ now = Len(MergeData)
    /\ started = 0
    /\ pc = [p \in Workers |-> "idle"]
    /\ item_data = [p \in Workers |-> <<>>]
    /\ embedding = [p \in Workers |-> NoVector]
    /\ best_hit = [p \in Workers |-> NoHit]
    /\ similar_item = [p \in Workers |-> NoItem]
    /\ sk = [p \in Workers |-> NoKey]
    /\ result = [p \in Workers |-> NoResult]
    /\ trace = [p \in Workers |-> NoTrace]
    /\ event_log = <<>>
    /\ event = NoCall
    /\ merge = NoMerge
    /\ AuxIdle

\* a /merge command arrives while no other is running
MergeBegin == merge.pc = "idle" /\ merge.commands < MaxMerges

\* the command is the one that died between its writes, given again
Again(from_id, into_id) ==
    /\ merge.crashed
    /\ merge.from_id = from_id
    /\ merge.into_id = into_id

\* /merge FROM_ID INTO_ID: the scan finds both items
MergeScan ==
    /\ MergeBegin
    /\ \E from_id \in MergeIds(table), into_id \in MergeIds(table) :
       \E from_item \in ScanFrom(table, from_id),
          into_item \in ScanInto(table, from_id, into_id) :
          merge' = [pc |-> "update_item", from_id |-> from_id,
                    into_id |-> into_id, from_item |-> from_item,
                    into_item |-> into_item, reply |-> None,
                    commands |-> merge.commands + 1,
                    crashed |-> FALSE,
                    again |-> Again(from_id, into_id),
                    whole |-> IF Again(from_id, into_id) THEN merge.whole
                              ELSE merge_whole(table, from_id, from_item,
                                               into_item)]
    /\ UNCHANGED <<table, index, now, started, pc, item_data, embedding,
                   best_hit, similar_item, sk, result, trace, event_vars,
                   aux_vars>>

\* /merge FROM_ID INTO_ID: an item is not found (so when both ids are one)
MergeNotFound ==
    /\ MergeBegin
    /\ \E from_id \in MergeIds(table), into_id \in MergeIds(table) :
          /\ \/ ScanFrom(table, from_id) = {}
             \/ ScanInto(table, from_id, into_id) = {}
          /\ merge' = [NoMerge EXCEPT !.from_id = from_id,
                                      !.into_id = into_id,
                                      !.reply = "not found",
                                      !.commands = merge.commands + 1]
    /\ UNCHANGED <<table, index, now, started, pc, item_data, embedding,
                   best_hit, similar_item, sk, result, trace, event_vars,
                   aux_vars>>

\* table.update_item on the target
MergeUpdate ==
    /\ merge.pc = "update_item"
    /\ table' = merge_update(table, merge.from_id, merge.from_item,
                             merge.into_item)
    /\ merge' = [merge EXCEPT !.pc = "delete_item"]
    /\ UNCHANGED <<index, now, started, pc, item_data, embedding, best_hit,
                   similar_item, sk, result, trace, event_vars,
                   aux_vars>>

\* table.delete_item on the source, and the reply
MergeDelete ==
    /\ merge.pc = "delete_item"
    /\ table' = delete_item(table, <<merge.from_item.PK, merge.from_item.SK>>)
    /\ merge' = [merge EXCEPT !.pc = "idle", !.reply = "merged"]
    /\ UNCHANGED <<index, now, started, pc, item_data, embedding, best_hit,
                   similar_item, sk, result, trace, event_vars,
                   aux_vars>>

\* a merge in one transaction: the update is undone when the invocation dies
MergeCrashRolledBack ==
    /\ merge.pc \in {"update_item", "delete_item"}
    /\ table' = put_item(table, merge.into_item)
    /\ merge' = [merge EXCEPT !.pc = "idle",
                              !.crashed = (merge.pc = "delete_item")]
    /\ UNCHANGED <<index, now, started, pc, item_data, embedding, best_hit,
                   similar_item, sk, result, trace, event_vars,
                   aux_vars>>

\* the invocation dies (time-out, or an error raised by a call) before a
\* write: what it has written stays
MergeCrash ==
    /\ merge.pc \in {"update_item", "delete_item"}
    /\ merge' = [merge EXCEPT !.pc = "idle",
                              !.crashed = (merge.pc = "delete_item")]
    /\ UNCHANGED <<table, index, now, started, pc, item_data, embedding,
                   best_hit, similar_item, sk, result, trace, event_vars,
                   aux_vars>>

NextMerge ==
    \/ MergeScan
    \/ MergeNotFound
    \/ MergeUpdate
    \/ MergeDelete
    \/ MergeCrash

SpecMerge == InitMerge /\ [][NextMerge]_vars

(***************************************************************************)
(* cosine_similarity of embedding_matcher.py as a function of its two      *)
(* arguments.  The vectors have integer norms; the empty list, zero        *)
(* vectors of several lengths and vectors of unequal lengths are among     *)
(* them.                                                                   *)
(***************************************************************************)
CosineVectors ==
    {<<>>, <<0>>, <<0, 0>>, ZeroVector, <<5>>, <<3, 4>>, <<4, 3>>,
     <<0 - 3, 4>>, <<0, 5>>, <<3, 4, 0>>, VecA, VecB, VecC, VecD}

InitCosine ==
    /\ \E vec_a \in CosineVectors, vec_b \in CosineVectors :
          cosine = [NoCosine EXCEPT !.vec_a = vec_a, !.vec_b = vec_b]
    /\ webhook = NoRequest
    /\ process = NoProcess
    /\ linker = NoLinker
    /\ embedder = NoEmbedder
    /\ SaveIdle
    /\ OperatorIdle

\* cosine_similarity(vec_a, vec_b) returns
CosineSimilarity ==
    /\ cosine.score = <<>>
    /\ cosine' = [cosine EXCEPT
                     !.score = <<cosine_similarity(cosine.vec_a, cosine.vec_b)>>]
    /\ UNCHANGED <<save_vars, event_vars, merge_vars, webhook, process,
                   linker, embedder>>

NextCosine == CosineSimilarity

SpecCosine == InitCosine /\ [][NextCosine]_vars

(***************************************************************************)
(* The processor Lambda, lambdas/processor.py: handler verifies the        *)
(* webhook secret, then answers a command or classifies the message and    *)
(* saves it with save_to_dynamodb, which looks an item up by its name.     *)
(* TELEGRAM_SECRET_TOKEN is read once, when the module is loaded.  A       *)
(* request is recorded with its header, its text, the response returned    *)
(* and what the handler has done for it so far: calls of the classifier,   *)
(* writes on the table, messages sent; with the table as it was when the   *)
(* request came in.                                                        *)
(***************************************************************************)
RECURSIVE LStrip(_)
LStrip(s) ==
    IF Len(s) > 0 /\ SubSeq(s, 1, 1) = " " THEN LStrip(SubSeq(s, 2, Len(s)))
    ELSE s

RECURSIVE RStrip(_)
RStrip(s) ==
    IF Len(s) > 0 /\ SubSeq(s, Len(s), Len(s)) = " "
    THEN RStrip(SubSeq(s, 1, Len(s) - 1))
    ELSE s

\* _get_env(key): os.getenv(key, "").strip(), and None for "" and "-"; an
\* unset variable is given as None
_get_env(value) ==
    LET stripped == IF value = None THEN "" ELSE LStrip(RStrip(value))
    IN  IF stripped \in {"", "-"} THEN None ELSE stripped

\* the ways TELEGRAM_SECRET_TOKEN is set in the Lambda's environment
SecretEnv == {None, "", "-", "s3cret", " s3cret "}

\* the x-telegram-bot-api-secret-token header of a request: missing, the
\* secret, another value, the empty string
SecretHeaders == {None, "s3cret", "wrong", ""}

\* the text of the message of a request: none, the commands, a note
RequestTexts ==
    {"", "/digest daily", "/open", "/closed", "/debug count",
     "/debug backfill", "finish report"}

\* text.startswith(prefix)
TextStartsWith(text, prefix) ==
    Len(text) >= Len(prefix) /\ SubSeq(text, 1, Len(prefix)) = prefix

\* the commands of the handler in the order it tests for them, each with
\* the body it returns and the number of messages it sends (the backfill
\* announces itself and then reports)
Commands ==
    <<[prefix |-> "/digest", body |-> "Digest command processed", sends |-> 1],
      [prefix |-> "/open", body |-> "Open command processed", sends |-> 1],
      [prefix |-> "/closed", body |-> "Closed command processed", sends |-> 1],
      [prefix |-> "/debug count", body |-> "Debug count command processed",
       sends |-> 1],
      [prefix |-> "/debug backfill", body |-> "Backfill command processed",
       sends |-> 2]>>

\* the first command the text starts with, 0 when it is no command
CommandOf(text) ==
    LET found == {i \in 1..Len(Commands) :
                     TextStartsWith(text, Commands[i].prefix)}
    IN  IF found = {} THEN 0
        ELSE CHOOSE i \in found : \A j \in found : i <= j

\* what a classifier returns for the note: the record, with the confidence
\* it gave
Classifications ==
    {[category |-> "Projects", name |-> "report", status |-> "open",
      next_action |-> "write", notes |-> "n1", confidence |-> c] :
     c \in {0 - 5, 59, 60, 150}}

\* process_message: original_text added, confidence clamped
processed(classified, message) ==
    [a \in DOMAIN classified \cup {"original_text"} |->
        IF a = "original_text" THEN message
        ELSE IF a = "confidence" THEN clamp_confidence(classified.confidence)
        ELSE classified[a]]

\* the item save_to_dynamodb takes for the existing one: the first of the
\* category, in the order of the sort keys, that has the name
ExistingItem(tbl, category, name) ==
    LET same == ItemsNamed(tbl, category, name)
        NotAfter(a, b) ==
            \/ TimeOf(a) < TimeOf(b)
            \/ TimeOf(a) = TimeOf(b) /\ SuffixOf(a) <= SuffixOf(b)
    IN  IF ~Truthy(name) \/ same = {} THEN NoKey
        ELSE CHOOSE k \in same : \A x \in same : NotAfter(k[2], x[2])

\* save_to_dynamodb, update branch: SET status, next_action, notes, updated_at
processor_update(tbl, k, data, timestamp) ==
    LET set == [status |-> Get(data, "status", "open"),
                next_action |-> Get(data, "next_action", None),
                notes |-> Get(data, "notes", None),
                updated_at |-> timestamp]
    IN  [x \in DOMAIN tbl |-> IF x = k THEN Update(tbl[x], set) ELSE tbl[x]]

\* save_to_dynamodb, create branch: the item it puts
processor_item(data, timestamp, h) ==
    [PK |-> MakePK(data.category),
     SK |-> MakeSK(timestamp, data.category, h),
     created_at |-> timestamp,
     status |-> Get(data, "status", "open"),
     name |-> Get(data, "name", None),
     next_action |-> Get(data, "next_action", None),
     notes |-> Get(data, "notes", None),
     original_text |-> data.original_text,
     confidence |-> data.confidence,
     category |-> data.category]

\* the handler rejects a request when a secret is set and the header is
\* not the secret, sent or not
SecretRejectedWhenSent(expected_secret, received_secret) ==
    /\ expected_secret # None
    /\ received_secret # None
    /\ received_secret # expected_secret

\* expected_secret and received_secret != expected_secret
SecretRejected(expected_secret, received_secret) ==
    /\ expected_secret # None
    /\ received_secret # expected_secret

NoRequestYet(secret) ==
    [expected_secret |-> secret, pc |-> "idle", header |-> None, text |-> "",
     response |-> <<>>, result |-> <<>>, classified |-> 0, writes |-> 0,
     sent |-> 0, before |-> <<>>, requests |-> 0]

InitWebhook ==
    /\ \E value \in SecretEnv : webhook = NoRequestYet(_get_env(value))
    /\ cosine = NoCosine
    /\ process = NoProcess
    /\ linker = NoLinker
    /\ embedder = NoEmbedder
    /\ SaveIdle
    /\ OperatorIdle

Response(statusCode, body) == [statusCode |-> statusCode, body |-> body]

\* the header passed the check and the body was parsed
Accepted ==
    /\ webhook.pc = "verify"
    /\ ~SecretRejected(webhook.expected_secret, webhook.header)

WebhookUnchanged ==
    UNCHANGED <<index, started, pc, item_data, embedding, best_hit,
                similar_item, sk, result, trace, event_vars, merge_vars,
                cosine, process, linker, embedder>>

\* Telegram, or anyone who knows the URL, posts a request
WebhookReceive ==
    /\ webhook.pc \in {"idle", "returned"}
    /\ webhook.requests < MaxRequests
    /\ \E header \in SecretHeaders, text \in RequestTexts :
          webhook' = [NoRequestYet(webhook.expected_secret) EXCEPT
                         !.pc = "verify", !.header = header, !.text = text,
                         !.before = table,
                         !.requests = webhook.requests + 1]
    /\ UNCHANGED <<table, now>>
    /\ WebhookUnchanged

\* the secret check fails
WebhookForbidden ==
    /\ webhook.pc = "verify"
    /\ SecretRejected(webhook.expected_secret, webhook.header)
    /\ webhook' = [webhook EXCEPT !.pc = "returned",
                                  !.response = Response(403, "Forbidden")]
    /\ UNCHANGED <<table, now>>
    /\ WebhookUnchanged

\* the message has no text
WebhookNoText ==
    /\ Accepted
    /\ webhook.text = ""
    /\ webhook' = [webhook EXCEPT
                      !.pc = "returned",
                      !.response = Response(200, "No text to process")]
    /\ UNCHANGED <<table, now>>
    /\ WebhookUnchanged

\* a command: it reads the table and replies; the backfill puts every item
\* it read again as it is
WebhookCommand ==
    /\ Accepted
    /\ webhook.text # ""
    /\ CommandOf(webhook.text) # 0
    /\ LET command == Commands[CommandOf(webhook.text)]
       IN  webhook' = [webhook EXCEPT
                          !.pc = "returned",
                          !.response = Response(200, command.body),
                          !.writes = IF command.prefix = "/debug backfill"
                                     THEN Cardinality(DOMAIN table) ELSE 0,
                          !.sent = command.sends]
    /\ UNCHANGED <<table, now>>
    /\ WebhookUnchanged

\* process_message returns the classified record
WebhookClassify ==
    /\ Accepted
    /\ webhook.text # ""
    /\ CommandOf(webhook.text) = 0
    /\ \E c \in Classifications :
          webhook' = [webhook EXCEPT
                         !.pc = "classified",
                         !.result = processed(c, webhook.text),
                         !.classified = 1]
    /\ UNCHANGED <<table, now>>
    /\ WebhookUnchanged

\* every classifier fails: process_message raises, the handler answers 500
WebhookClassifyFails ==
    /\ Accepted
    /\ webhook.text # ""
    /\ CommandOf(webhook.text) = 0
    /\ webhook' = [webhook EXCEPT
                      !.pc = "returned",
                      !.classified = 1,
                      !.response = Response(500, "Internal server error")]
    /\ UNCHANGED <<table, now>>
    /\ WebhookUnchanged

\* confidence >= 60: save_to_dynamodb updates the item of the name or puts
\* a new one, and the confirmation is sent
WebhookSave ==
    /\ webhook.pc = "classified"
    /\ webhook.result.confidence >= 60
    /\ \E timestamp \in ClockReads(now) :
          LET data == webhook.result
              existing == ExistingItem(table, data.category, data.name)
          IN  /\ now' = timestamp
              /\ IF existing # NoKey
                 THEN table' = processor_update(table, existing, data,
                                                timestamp)
                 ELSE \E h \in HashSuffixes(table, index, timestamp,
                                            data.category) :
                         table' = put_item(table,
                                           processor_item(data, timestamp, h))
    /\ webhook' = [webhook EXCEPT
                      !.pc = "returned",
                      !.writes = 1,
                      !.sent = 1,
                      !.response =
                          Response(200, "Message processed successfully")]
    /\ WebhookUnchanged

\* confidence >= 60 and the table call raises: save_to_dynamodb returns
\* False and the failure is reported to the chat
WebhookSaveFails ==
    /\ webhook.pc = "classified"
    /\ webhook.result.confidence >= 60
    /\ webhook' = [webhook EXCEPT
                      !.pc = "returned",
                      !.sent = 1,
                      !.response =
                          Response(200, "Message processed successfully")]
    /\ UNCHANGED <<table, now>>
    /\ WebhookUnchanged

\* confidence < 60: the low-confidence reply, nothing saved
WebhookLowConfidence ==
    /\ webhook.pc = "classified"
    /\ webhook.result.confidence < 60
    /\ webhook' = [webhook EXCEPT
                      !.pc = "returned",
                      !.sent = 1,
                      !.response =
                          Response(200, "Message processed successfully")]
    /\ UNCHANGED <<table, now>>
    /\ WebhookUnchanged

NextWebhook ==
    \/ WebhookReceive
    \/ WebhookForbidden
    \/ WebhookNoText
    \/ WebhookCommand
    \/ WebhookClassify
    \/ WebhookClassifyFails
    \/ WebhookSave
    \/ WebhookSaveFails
    \/ WebhookLowConfidence

SpecWebhook == InitWebhook /\ [][NextWebhook]_vars

(***************************************************************************)
(* The process action, lambdas/actions/process.py: handle classifies the   *)
(* message, hands the record to save_to_dynamodb_with_embedding when its    *)
(* confidence is 60 or more, and replies to the chat.  The save is the      *)
(* save path above, run by a worker; its hint is the default "open".  An    *)
(* invocation is recorded with the classified record, the number of saves   *)
(* started before it, the replies it has sent, and the table and the index  *)
(* as they were when it classified.                                         *)
(***************************************************************************)
\* the classified records process_message returns: those the save path is
\* called with by this action, and two of low confidence
ProcessResults ==
    {call.item_data : call \in {c \in SaveCalls : c.action = "open"}}
        \cup {[category |-> "Projects", name |-> "alpha", status |-> "open",
               next_action |-> "call", notes |-> "n1",
               original_text |-> "t6", confidence |-> clamp_confidence(59)],
              [category |-> "People", name |-> None, status |-> None,
               next_action |-> None, notes |-> None,
               original_text |-> "t7",
               confidence |-> clamp_confidence(0 - 5)]}

\* a handle that saves above 60 only
SavesAbove(confidence) == confidence > 60

\* result["confidence"] >= 60
Saves(confidence) == confidence >= 60

InitProcess ==
    /\ process = NoProcess
    /\ cosine = NoCosine
    /\ webhook = NoRequest
    /\ linker = NoLinker
    /\ embedder = NoEmbedder
    /\ SaveIdle
    /\ OperatorIdle

\* the invocation has called the save path
HandedOver == started > process.started_at

ProcessUnchanged ==
    UNCHANGED <<event_vars, merge_vars, cosine, webhook, linker, embedder>>

\* a message arrives and process_message returns its classified record
ProcessClassify ==
    /\ process.pc \in {"idle", "returned", "raised"}
    /\ process.invocations < MaxRequests
    /\ \E r \in ProcessResults :
          process' = [NoProcess EXCEPT
                         !.pc = "classified", !.result = r,
                         !.started_at = started,
                         !.table = table, !.index = index,
                         !.invocations = process.invocations + 1]
    /\ UNCHANGED save_vars
    /\ ProcessUnchanged

\* every classifier fails: process_message raises
ProcessClassifyFails ==
    /\ process.pc \in {"idle", "returned", "raised"}
    /\ process.invocations < MaxRequests
    /\ process' = [NoProcess EXCEPT
                      !.pc = "raised",
                      !.started_at = started,
                      !.table = table, !.index = index,
                      !.invocations = process.invocations + 1]
    /\ UNCHANGED save_vars
    /\ ProcessUnchanged

\* save_to_dynamodb_with_embedding(result) is called: the step of the save
\* path starts with the classified record and the default hint
Handed(p) ==
    /\ process.pc = "classified"
    /\ Saves(process.result.confidence)
    /\ ~HandedOver
    /\ item_data'[p] =
           WithStatus([action |-> "open", item_data |-> process.result])

\* the worker is free again
Freed(p) ==
    /\ pc' = [pc EXCEPT ![p] = "idle"]
    /\ item_data' = [item_data EXCEPT ![p] = <<>>]
    /\ embedding' = [embedding EXCEPT ![p] = NoVector]
    /\ best_hit' = [best_hit EXCEPT ![p] = NoHit]
    /\ similar_item' = [similar_item EXCEPT ![p] = NoItem]
    /\ sk' = [sk EXCEPT ![p] = NoKey]
    /\ result' = [result EXCEPT ![p] = NoResult]
    /\ trace' = [trace EXCEPT ![p] = NoTrace]
    /\ UNCHANGED <<table, index, now, started>>

\* the save returned: the reply names what it did
ProcessReply(p) ==
    /\ process.pc = "classified"
    /\ pc[p] = "done"
    /\ process' = [process EXCEPT
                      !.pc = "returned",
                      !.replies = Append(@, IF result[p].action = "updated"
                                            THEN "updated" ELSE "saved")]
    /\ Freed(p)
    /\ ProcessUnchanged

\* the save raised: the error leaves handle, nothing is sent
ProcessRaises(p) ==
    /\ process.pc = "classified"
    /\ pc[p] = "failed"
    /\ process' = [process EXCEPT !.pc = "raised"]
    /\ Freed(p)
    /\ ProcessUnchanged

\* confidence below 60: the low-confidence reply
ProcessLowConfidence ==
    /\ process.pc = "classified"
    /\ ~Saves(process.result.confidence)
    /\ process' = [process EXCEPT
                      !.pc = "returned",
                      !.replies = Append(@, "low confidence")]
    /\ UNCHANGED save_vars
    /\ ProcessUnchanged

NextProcess ==
    \/ ProcessClassify
    \/ ProcessClassifyFails
    \/ \E p \in Workers : SaveNameless(p) /\ Handed(p)
    \/ \E p \in Workers : SaveEmbeddingFails(p) /\ Handed(p)
    \/ \E p \in Workers : SaveQueryFails(p) /\ Handed(p)
    \/ \E p \in Workers : SaveFindSimilar(p) /\ Handed(p)
    \/ \E p \in Workers : UpdateItem(p)
    \/ \E p \in Workers : CreateItemPut(p)
    \/ \E p \in Workers : CreateItemIndex(p)
    \/ \E p \in Workers : IndexFails(p)
    \/ \E p \in Workers : ProcessReply(p)
    \/ \E p \in Workers : ProcessRaises(p)
    \/ ProcessLowConfidence

SpecProcess == InitProcess /\ [][NextProcess]_vars

(***************************************************************************)
(* The task linker Lambda (task_linker).  Its tasks live in the same table *)
(* under PK "USER#{user_id}" and SK "TASK#{task_id}".  A behaviour of      *)
(* SpecLinker is a sequence of invocations of handler; each runs link_task *)
(* to its end.  The embedding of a message is a list of floats, the        *)
(* embedding read back from a task is the list of Decimal that             *)
(* serialize_embedding stored.                                             *)
(***************************************************************************)
MaxLinks == 2      \* invocations of the task linker in one behaviour

LinkThreshold == 8500   \* the literal 0.85 of link_task

LinkUsers == {"default_user", "u2"}
LinkTexts == {"", "alpha", "beta"}
LinkActions == {"Start", "done", "note"}
TaskIds == 1..(MaxLinks + 1)

make_task_keys(user_id, task_id) == <<<<"USER", user_id>>, <<"TASK", task_id>>>>

\* similarity.cosine_similarity(vec_a, vec_b) for a list of floats vec_a and
\* a stored list of Decimal vec_b: a float and a Decimal do not multiply, and
\* with nothing to multiply one of the norms is 0.0
similarity_cosine_similarity(vec_a, vec_b) ==
    IF Min(Len(vec_a), Len(vec_b)) > 0 /\ vec_b[1][1] = "Decimal"
    THEN [raised |-> "TypeError", score |-> 0]
    ELSE [raised |-> "ZeroDivisionError", score |-> 0]

\* the same cosine over numbers: the stored Decimals are read as floats
similarity_cosine_of_numbers(vec_a, vec_b) ==
    LET numbers == embedding_list(vec_b)
        norm_a == Sqrt(SumProd(vec_a, vec_a, Len(vec_a)))
        norm_b == Sqrt(SumProd(numbers, numbers, Len(numbers)))
    IN  IF norm_a * norm_b = 0
        THEN [raised |-> "ZeroDivisionError", score |-> 0]
        ELSE [raised |-> None,
              score |-> cosine_similarity(vec_a, numbers)]

\* the tasks of a user, in the order of the query (by sort key)
TaskKeys(tbl, user_id) ==
    {k \in DOMAIN tbl : k[1] = <<"USER", user_id>>}

RECURSIVE InKeyOrder(_)
InKeyOrder(keys) ==
    IF keys = {} THEN <<>>
    ELSE LET first == CHOOSE k \in keys : \A j \in keys : k[2][2] <= j[2][2]
         IN  <<first>> \o InKeyOrder(keys \ {first})

\* list_open_tasks(user_id)
list_open_tasks(tbl, user_id) ==
    InKeyOrder({k \in TaskKeys(tbl, user_id) : tbl[k].status # "completed"})

\* update_task_status(user_id, task_id, new_status)
update_task_status(tbl, user_id, task_id, new_status) ==
    LET k == make_task_keys(user_id, task_id)
    IN  IF k \in DOMAIN tbl
        THEN [tbl EXCEPT ![k].status = new_status]
        ELSE [x \in DOMAIN tbl \cup {k} |->
                 IF x = k THEN [PK |-> k[1], SK |-> k[2], status |-> new_status]
                 ELSE tbl[x]]

\* create_task(user_id, name, status, embedding), with the uuid4 it draws
\* and the time it reads
create_task(tbl, user_id, name, status, vec, task_id, created_at) ==
    LET k == make_task_keys(user_id, task_id)
        item == [PK |-> k[1], SK |-> k[2], taskId |-> task_id,
                 entityType |-> "Task", name |-> name, status |-> status,
                 embedding |-> serialize_embedding(vec),
                 createdAt |-> created_at]
    IN  put_item(tbl, item)

NoTask == <<>>

\* the loop of link_task over open_tasks, from the best score and task so far
RECURSIVE BestTask(_, _, _, _)
BestTask(tbl, keys, msg_emb, best) ==
    IF keys = <<>> THEN best
    ELSE LET t == tbl[Head(keys)]
         IN  IF Len(t.embedding) = 0
             THEN BestTask(tbl, Tail(keys), msg_emb, best)
             ELSE LET s == similarity_cosine_similarity(msg_emb, t.embedding)
                  IN  IF s.raised # None
                      THEN [best EXCEPT !.raised = s.raised]
                      ELSE IF s.score > best.best_score
                      THEN BestTask(tbl, Tail(keys), msg_emb,
                                    [best_score |-> s.score, best_task |-> t,
                                     raised |-> None])
                      ELSE BestTask(tbl, Tail(keys), msg_emb, best)

\* link_task(user_id, message_text, action) once the message is embedded:
\* what it raises, the table it leaves and the result it returns
link_task(tbl, user_id, message_text, action, msg_emb, task_id, created_at) ==
    LET best == BestTask(tbl, list_open_tasks(tbl, user_id), msg_emb,
                         [best_score |-> 0, best_task |-> NoTask,
                          raised |-> None])
        status == derive_status(action)
    IN  IF best.raised # None
        THEN [raised |-> best.raised, table |-> tbl, result |-> <<>>]
        ELSE IF DOMAIN best.best_task # {} /\ best.best_score > LinkThreshold
        THEN [raised |-> None,
              table |-> update_task_status(tbl, user_id,
                                           best.best_task.taskId, status),
              result |-> [matched_task |-> best.best_task.taskId,
                          confidence |-> best.best_score]]
        ELSE [raised |-> None,
              table |-> create_task(tbl, user_id, message_text, status,
                                    msg_emb, task_id, created_at),
              result |-> [created_task |-> task_id,
                          confidence |-> best.best_score]]

\* task_linker.embeddings.embed_text(text) for a text that is not empty:
\* Bedrock when AWS_BEDROCK_REGION is set, OpenAI otherwise
linker_embed_text(text, use_bedrock) ==
    IF use_bedrock THEN _embed_bedrock(text) ELSE _embed_openai(text)

InitLinker ==
    /\ \E use_bedrock \in BOOLEAN :
          linker = [NoLinker EXCEPT !.use_bedrock = use_bedrock]
    /\ cosine = NoCosine
    /\ webhook = NoRequest
    /\ process = NoProcess
    /\ embedder = NoEmbedder
    /\ SaveIdle
    /\ OperatorIdle

LinkerUnchanged ==
    UNCHANGED <<index, started, pc, item_data, embedding, best_hit,
                similar_item, sk, result, trace, event_vars, merge_vars,
                cosine, webhook, process, embedder>>

\* the event of an invocation is recorded with the table it found
Invoked(user_id, message_text, action, response, msg_emb) ==
    [linker EXCEPT !.calls = @ + 1, !.user_id = user_id,
                   !.message_text = message_text, !.action = action,
                   !.msg_emb = msg_emb, !.response = response,
                   !.before = table]

\* handler: no message_text, status 400
LinkerNoText ==
    /\ linker.calls < MaxLinks
    /\ \E user_id \in LinkUsers, action \in LinkActions :
          linker' = Invoked(user_id, "", action,
                            Response(400, "message_text is required"),
                            NoVector)
    /\ UNCHANGED <<table, now>>
    /\ LinkerUnchanged

\* handler: embed_text raises ValueError, status 500
LinkerEmbedFails ==
    /\ linker.calls < MaxLinks
    /\ \E user_id \in LinkUsers, message_text \in LinkTexts \ {""},
          action \in LinkActions :
          linker' = Invoked(user_id, message_text, action,
                            Response(500, "ValueError"), NoVector)
    /\ UNCHANGED <<table, now>>
    /\ LinkerUnchanged

\* handler: link_task returns (status 200) or raises (status 500)
LinkerLinks ==
    /\ linker.calls < MaxLinks
    /\ \E user_id \in LinkUsers, message_text \in LinkTexts \ {""},
          action \in LinkActions,
          task_id \in TaskIds \ {k[2][2] : k \in DOMAIN table} :
          LET msg_emb == linker_embed_text(message_text, linker.use_bedrock)
              linked == link_task(table, user_id, message_text, action,
                                  msg_emb, task_id, now + 1)
          IN  /\ table' = linked.table
              /\ now' = IF DOMAIN linked.result # {}
                           /\ "created_task" \in DOMAIN linked.result
                        THEN now + 1 ELSE now
              /\ linker' = Invoked(user_id, message_text, action,
                                   IF linked.raised # None
                                   THEN Response(500, linked.raised)
                                   ELSE Response(200, linked.result),
                                   msg_emb)
    /\ LinkerUnchanged

NextLinker ==
    \/ LinkerNoText
    \/ LinkerEmbedFails
    \/ LinkerLinks

SpecLinker == InitLinker /\ [][NextLinker]_vars

(***************************************************************************)
(* common.bedrock_embeddings.  A behaviour of SpecEmbed is a sequence of   *)
(* calls of embed_text and embed_texts in one worker, whose module keeps   *)
(* the dictionary _embedding_cache and the lru_cache of _cached_embedding. *)
(* The lru_cache is a list of entries, least recently used first; an entry *)
(* remembers what _embedding_cache.get(text) returned when it was made:    *)
(* a vector (found) or None.                                               *)
(***************************************************************************)
MaxEmbeds == 3     \* calls of embed_text and embed_texts in one behaviour
LruMax == 1        \* stands for 1024, the maxsize of the lru_cache

EmbedTexts == {"alpha", "beta", "gamma"}
TextLists == {<<>>, <<"alpha">>, <<"alpha", "beta">>}

\* _cached_embedding(text) under lru_cache: the entry it returns and the
\* entries it leaves
_cached_embedding(lru, cache, text) ==
    IF \E i \in 1..Len(lru) : lru[i].text = text
    THEN LET i == CHOOSE j \in 1..Len(lru) : lru[j].text = text
         IN  [entry |-> lru[i],
              lru |-> Append(SubSeq(lru, 1, i - 1)
                                \o SubSeq(lru, i + 1, Len(lru)), lru[i])]
    ELSE LET entry == IF text \in DOMAIN cache
                      THEN [text |-> text, found |-> TRUE,
                            value |-> cache[text]]
                      ELSE [text |-> text, found |-> FALSE, value |-> <<>>]
             room == IF Len(lru) >= LruMax THEN Tail(lru) ELSE lru
         IN  [entry |-> entry, lru |-> Append(room, entry)]

\* embed_bedrock_titan(texts) when the call for the text at place failing
\* raises (0: none does): one call of Bedrock for each text up to there
embed_bedrock_titan(texts, failing) ==
    IF texts = <<>> THEN [raised |-> None, embeddings |-> <<>>,
                          providers |-> <<>>]
    ELSE IF failing = 0
    THEN [raised |-> None,
          embeddings |-> [i \in 1..Len(texts) |-> _embed_bedrock(texts[i])],
          providers |-> [i \in 1..Len(texts) |-> "bedrock"]]
    ELSE [raised |-> "ClientError", embeddings |-> <<>>,
          providers |-> [i \in 1..failing |-> "bedrock"]]

\* embed_openai(texts): one call of OpenAI for the batch
embed_openai(texts, failing) ==
    IF failing = 0
    THEN [raised |-> None,
          embeddings |-> [i \in 1..Len(texts) |-> _embed_openai(texts[i])],
          providers |-> <<"openai">>]
    ELSE [raised |-> "OpenAIError", embeddings |-> <<>>,
          providers |-> <<"openai">>]

\* embed_texts(texts, use_bedrock)
embed_texts(texts, use_bedrock, failing) ==
    IF texts = <<>>
    THEN [raised |-> None, embeddings |-> <<>>, providers |-> <<>>]
    ELSE LET called == IF use_bedrock
                       THEN embed_bedrock_titan(texts, failing)
                       ELSE embed_openai(texts, failing)
         IN  IF called.raised # None
             THEN [called EXCEPT !.raised = "ValueError"]
             ELSE called

\* the dictionary with one more entry
SetItem(cache, text, vec) ==
    [t \in DOMAIN cache \cup {text} |-> IF t = text THEN vec ELSE cache[t]]

InitEmbed ==
    /\ embedder = NoEmbedder
    /\ cosine = NoCosine
    /\ webhook = NoRequest
    /\ process = NoProcess
    /\ linker = NoLinker
    /\ SaveIdle
    /\ OperatorIdle

EmbedUnchanged ==
    UNCHANGED <<save_vars, event_vars, merge_vars, cosine, webhook, process,
                linker>>

\* a call is recorded with its arguments, the place at which its provider
\* failed, the provider calls it made, what it raised or returned and the
\* dictionary it found
Embedded_call(op, texts, use_bedrock, failing, providers, raised, value) ==
    [embedder EXCEPT !.calls = @ + 1, !.op = op, !.texts = texts,
                     !.use_bedrock = use_bedrock, !.failing = failing,
                     !.providers = providers, !.raised = raised,
                     !.result = value, !.before = embedder.cache]

\* embed_text(text, use_bedrock) returns what _cached_embedding returned
EmbedTextCached ==
    /\ embedder.calls < MaxEmbeds
    /\ \E text \in EmbedTexts, use_bedrock \in BOOLEAN :
          LET cached == _cached_embedding(embedder.lru, embedder.cache, text)
          IN  /\ cached.entry.found
              /\ embedder' =
                    [Embedded_call("embed_text", <<text>>, use_bedrock, 0,
                                   <<>>, None, cached.entry.value)
                        EXCEPT !.lru = cached.lru]
    /\ EmbedUnchanged

\* embed_text(text, use_bedrock) gets None from _cached_embedding, embeds the
\* text and stores the vector in _embedding_cache
EmbedTextProvided ==
    /\ embedder.calls < MaxEmbeds
    /\ \E text \in EmbedTexts, use_bedrock \in BOOLEAN :
          LET cached == _cached_embedding(embedder.lru, embedder.cache, text)
              embeddings == embed_texts(<<text>>, use_bedrock, 0)
          IN  /\ ~cached.entry.found
              /\ embedder' =
                    [Embedded_call("embed_text", <<text>>, use_bedrock, 0,
                                   embeddings.providers, None,
                                   embeddings.embeddings[1])
                        EXCEPT !.lru = cached.lru,
                               !.cache = SetItem(embedder.cache, text,
                                                 embeddings.embeddings[1])]
    /\ EmbedUnchanged

\* embed_text(text, use_bedrock) gets None from _cached_embedding and
\* embed_texts raises
EmbedTextFails ==
    /\ embedder.calls < MaxEmbeds
    /\ \E text \in EmbedTexts, use_bedrock \in BOOLEAN :
          LET cached == _cached_embedding(embedder.lru, embedder.cache, text)
              embeddings == embed_texts(<<text>>, use_bedrock, 1)
          IN  /\ ~cached.entry.found
              /\ embedder' =
                    [Embedded_call("embed_text", <<text>>, use_bedrock, 1,
                                   embeddings.providers, embeddings.raised,
                                   <<>>)
                        EXCEPT !.lru = cached.lru]
    /\ EmbedUnchanged

\* embed_texts(texts, use_bedrock) called on its own
EmbedTextsCalled ==
    /\ embedder.calls < MaxEmbeds
    /\ \E texts \in TextLists, use_bedrock \in BOOLEAN,
          failing \in 0..2 :
          LET embeddings == embed_texts(texts, use_bedrock, failing)
          IN  /\ failing <= Len(texts)
              /\ embedder' =
                    Embedded_call("embed_texts", texts, use_bedrock, failing,
                                  embeddings.providers, embeddings.raised,
                                  embeddings.embeddings)
    /\ EmbedUnchanged

NextEmbed ==
    \/ EmbedTextCached
    \/ EmbedTextProvided
    \/ EmbedTextFails
    \/ EmbedTextsCalled

SpecEmbed == InitEmbed /\ [][NextEmbed]_vars

(***************************************************************************)
(* The save path after the operator's commands.  SpecStale starts from the  *)
(* first two items of MergeData, saved and indexed; the operator deletes   *)
(* and merges items, and then messages are saved one after the other: a    *)
(* command is given before the first message, and a message is taken up    *)
(* when no /merge is running.                                              *)
(***************************************************************************)
\* two projects, "alpha" and "beta", whose vectors score 0.85 against each
\* other
InitStale ==
    /\ table = Saved(2).table
    /\ index = Saved(2).index
    /\ now = 2
    /\ started = 0
    /\ pc = [p \in Workers |-> "idle"]
    /\ item_data = [p \in Workers |-> <<>>]
    /\ embedding = [p \in Workers |-> NoVector]
    /\ best_hit = [p \in Workers |-> NoHit]
    /\ similar_item = [p \in Workers |-> NoItem]
    /\ sk = [p \in Workers |-> NoKey]
    /\ result = [p \in Workers |-> NoResult]
    /\ trace = [p \in Workers |-> NoTrace]
    /\ OperatorIdle
    /\ AuxIdle

NextStale ==
    \/ SaveFindSimilar(1) /\ merge.pc = "idle"
    \/ UpdateItem(1)
    \/ CreateItemPut(1)
    \/ CreateItemIndex(1)
    \/ Return(1)
    \/ Delete /\ merge.pc = "idle" /\ started = 0
    \/ MergeScan /\ started = 0
    \/ MergeUpdate
    \/ MergeDelete

SpecStale == InitStale /\ [][NextStale]_vars

(***************************************************************************)
(* Properties.                                                             *)
(***************************************************************************)
Busy(p) == pc[p] # "idle"
NameOf(p) == Get(item_data[p], "name", None)
Named(p) == Busy(p) /\ NameOf(p) \notin {None, ""}
Nameless(p) == Busy(p) /\ NameOf(p) \in {None, ""}
HasHit(p) == DOMAIN best_hit[p] # {}
Returned(p, action) == pc[p] = "done" /\ result[p].action = action
TargetOf(p) == <<similar_item[p].PK, similar_item[p].SK>>

\* C1: for a named message whose first hit names an item that is in the
\* table, the save returns "updated" exactly when the hit's score is at
\* least the threshold: a score equal to the threshold updates, a lower
\* score creates.
C1_ThresholdInclusive ==
    \A p \in Workers :
        (Named(p) /\ HasHit(p) /\ trace[p].in_store) =>
            /\ pc[p] = "update_item" => best_hit[p].score >= Threshold
            /\ pc[p] \in {"put_item", "index_vector"}
                   => best_hit[p].score < Threshold
            /\ pc[p] = "done" =>
                   (result[p].action = "updated"
                        <=> best_hit[p].score >= Threshold)
            /\ pc[p] = "done" =>
                   (result[p].action = "created"
                        <=> best_hit[p].score < Threshold)

\* an update on a hit whose score is exactly the threshold
C1_Witness ==
    \E p \in Workers :
        /\ Returned(p, "updated")
        /\ Named(p) /\ HasHit(p) /\ trace[p].in_store
        /\ best_hit[p].score = Threshold

\* a create on a hit below the threshold whose item is in the table
C1_WitnessBelow ==
    \E p \in Workers :
        /\ Returned(p, "created")
        /\ Named(p) /\ HasHit(p) /\ trace[p].in_store
        /\ best_hit[p].score < Threshold /\ best_hit[p].score > 0

\* C2: the item a save matches, and then updates, lies in the partition of
\* the message's category and carries that category, also when an item of
\* another category has the very embedding of the message.
C2_CategoryIsolation ==
    \A p \in Workers :
        /\ HasHit(p) =>
               best_hit[p].metadata.category = item_data[p].category
        /\ DOMAIN similar_item[p] # {} =>
               /\ similar_item[p].PK = MakePK(item_data[p].category)
               /\ CategoryOf(similar_item[p].SK) = item_data[p].category
               /\ Get(similar_item[p], "category", item_data[p].category)
                      = item_data[p].category
        /\ Returned(p, "updated") =>
               /\ DOMAIN similar_item[p] # {}
               /\ result[p].sk = similar_item[p].SK

\* a named message is created although an item of another category, indexed,
\* has exactly its embedding
C2_Witness ==
    \E p \in Workers :
        /\ Returned(p, "created") /\ Named(p)
        /\ \E k \in DOMAIN table :
              /\ k[1] # MakePK(item_data[p].category)
              /\ _make_vector_id(k[1], k[2]) \in DOMAIN index
              /\ index[_make_vector_id(k[1], k[2])].Vector = embedding[p]
              /\ embedding_list(Get(table[k], "embedding", <<>>))
                     = embedding[p]

\* C3: a message without a name (absent or empty) never calls an embedding
\* provider, never queries the index, is never matched, and returns
\* "created" with similarity 0.
C3_NamelessAlwaysCreated ==
    \A p \in Workers :
        Nameless(p) =>
            /\ trace[p].providers = <<>>
            /\ trace[p].queries = 0
            /\ trace[p].updates = 0
            /\ ~HasHit(p)
            /\ embedding[p] = ZeroVector
            /\ pc[p] \in {"put_item", "index_vector", "done", "failed"}
            /\ pc[p] = "done" =>
                   /\ result[p].action = "created"
                   /\ result[p].similarity = 0

\* the second of two nameless messages of one category is created next to
\* the item of the first
C3_Witness ==
    \E p \in Workers :
        /\ Returned(p, "created") /\ Nameless(p)
        /\ \E k \in DOMAIN table :
              /\ k[1] = MakePK(item_data[p].category)
              /\ k[2] # result[p].sk
              /\ Get(table[k], "name", "x") \in {None, ""}

C5_UpdateFrame ==
    [][\A p \in Workers :
          (pc[p] = "update_item" /\ pc'[p] = "done") =>
              LET k == TargetOf(p)
                  mutable == {"status", "next_action", "notes",
                              "original_text", "updated_at"}
              IN  /\ index' = index
                  /\ DOMAIN table' = DOMAIN table \cup {k}
                  /\ \A x \in DOMAIN table \ {k} : table'[x] = table[x]
                  /\ table'[k].PK = k[1] /\ table'[k].SK = k[2]
                  /\ table'[k].status = item_data[p].status
                  /\ table'[k].next_action = item_data[p].next_action
                  /\ table'[k].notes = item_data[p].notes
                  /\ table'[k].original_text = item_data[p].original_text
                  /\ k \in DOMAIN table =>
                        /\ DOMAIN table'[k] = DOMAIN table[k] \cup mutable
                        /\ \A a \in DOMAIN table[k] \ mutable :
                              table'[k][a] = table[k][a]
                  /\ k \notin DOMAIN table =>
                        DOMAIN table'[k] = {"PK", "SK"} \cup mutable
      ]_vars

\* an item updated by a message of another name and another vector keeps
\* its name and its embedding next to the message's text
C5_Witness ==
    \E p \in Workers :
        /\ Returned(p, "updated")
        /\ TargetOf(p) \in DOMAIN table
        /\ LET item == table[TargetOf(p)]
           IN  /\ Get(item, "name", None) # item_data[p].name
               /\ Get(item, "name", None) = Get(similar_item[p], "name", None)
               /\ item.original_text = item_data[p].original_text
               /\ item.original_text # similar_item[p].original_text
               /\ "embedding" \in DOMAIN item
               /\ embedding_list(item.embedding) # embedding[p]
               /\ item.updated_at > item.created_at

\* C6: an invocation whose index query failed ends in that error: it is never
\* taken down the create or the update branch, returns no result and has
\* written neither the table nor the index.
C6_QueryFailurePropagates ==
    \A p \in Workers :
        trace[p].raised = "SimilarityQueryFailed" =>
            /\ pc[p] = "failed"
            /\ result[p] = NoResult
            /\ trace[p].queries = 1
            /\ trace[p].puts = 0
            /\ trace[p].updates = 0
            /\ trace[p].indexed = 0
            /\ sk[p] = NoKey
            /\ similar_item[p] = NoItem

\* the query of a named message fails while the index holds a record of its
\* category that its vector matches
C6_Witness ==
    \E p \in Workers :
        /\ pc[p] = "failed" /\ Named(p)
        /\ trace[p].raised = "SimilarityQueryFailed"
        /\ \E id \in DOMAIN index :
              /\ index[id].category = item_data[p].category
              /\ IndexScore(embedding[p], index[id].Vector) >= Threshold
              /\ <<index[id].pk, index[id].sk>> \in DOMAIN table

\* C7: when embed_text raises (every provider it tried has failed) the
\* invocation ends in the error with no query and no write; a named
\* invocation that goes on past the embedding holds a vector a provider
\* returned, never the zero vector of the nameless branch.
C7_EmbeddingFailureAborts ==
    \A p \in Workers :
        /\ trace[p].raised \in {"EmbeddingUnavailable", "ValueError"} =>
              /\ pc[p] = "failed"
              /\ result[p] = NoResult
              /\ embedding[p] = NoVector
              /\ trace[p].queries = 0
              /\ trace[p].puts = 0
              /\ trace[p].updates = 0
              /\ trace[p].indexed = 0
        /\ (Named(p) /\ trace[p].raised = None) =>
              /\ embedding[p] \in {VecA, VecB, VecC, VecD}
              /\ trace[p].providers # <<>>
              /\ trace[p].queries = 1

\* Bedrock and OpenAI have both failed for a named message whose name an
\* indexed item of its category carries
C7_Witness ==
    \E p \in Workers :
        /\ pc[p] = "failed" /\ Named(p)
        /\ trace[p].raised = "EmbeddingUnavailable"
        /\ trace[p].providers = <<"bedrock", "openai">>
        /\ \E id \in DOMAIN index :
              /\ index[id].category = item_data[p].category
              /\ index[id].name = item_data[p].name

\* C8: for a named message embed_text calls Bedrock first, calls OpenAI once
\* and only after Bedrock has failed, and raises only when both have failed.
C8_BedrockThenOpenAI ==
    \A p \in Workers :
        Named(p) =>
            /\ trace[p].providers \in {<<"bedrock">>, <<"bedrock", "openai">>}
            /\ trace[p].raised \in {"EmbeddingUnavailable", "ValueError"}
                   => trace[p].providers = <<"bedrock", "openai">>
            /\ (pc[p] # "failed" /\ trace[p].providers = <<"bedrock">>)
                   => embedding[p] = _embed_bedrock(item_data[p].name)
            /\ (pc[p] # "failed" /\ trace[p].providers = <<"bedrock", "openai">>)
                   => embedding[p] = _embed_openai(item_data[p].name)

\* C9: a save that returns "updated" returns the score of the first hit of
\* its query as the similarity, which is at least the threshold.
C9_SimilarityIsBestScore ==
    \A p \in Workers :
        Returned(p, "updated") =>
            /\ HasHit(p)
            /\ result[p].similarity = best_hit[p].score
            /\ result[p].similarity >= Threshold

\* C10: a create never puts its item under a key the table already holds.
C10_CreateKeysDistinct ==
    [][\A p \in Workers :
          (pc[p] = "put_item" /\ pc'[p] = "index_vector") =>
              <<MakePK(item_data[p].category), sk'[p]>> \notin DOMAIN table
      ]_vars

(***************************************************************************)
(* Properties of the event store.                                          *)
(***************************************************************************)
\* the source channel of the message an event or a stored entry belongs to:
\* its own source field, or for a MessageSimilar the source of the message
\* its source_event_sk names
SourceOf(e) ==
    IF e.event_type = "MessageSimilar"
    THEN (CHOOSE m \in Messages : get_sk(m) = e.source_event_sk).source
    ELSE e.source

\* the last call appended event e of the given types
Appended(types) ==
    /\ event.op \in {"append_event", "create_from_classification",
                     "MessageClassified"}
    /\ event.raised = None
    /\ event.event.event_type \in types

\* the MessageReceived entries of a source, source_id and received_at
ReceivedEntries(source, source_id, received_at) ==
    {k \in DOMAIN event_log :
        /\ event_log[k].event_type = "MessageReceived"
        /\ event_log[k].source = source
        /\ event_log[k].source_id = source_id
        /\ event_log[k].received_at = received_at}

\* C11: the log never holds two MessageReceived entries of one source,
\* source_id and received_at; after such an event is appended, the one entry
\* of its source, source_id and received_at is the event just appended, also
\* when an entry was there before.
C11_RedeliveryReplaces ==
    /\ \A k \in DOMAIN event_log :
          event_log[k].event_type = "MessageReceived" =>
              ReceivedEntries(event_log[k].source, event_log[k].source_id,
                              event_log[k].received_at) = {k}
    /\ Appended({"MessageReceived"}) =>
          LET e == event.event
              entries == ReceivedEntries(e.source, e.source_id, e.received_at)
          IN  /\ Cardinality(entries) = 1
              /\ \A k \in entries :
                    /\ event_log[k].raw_text = e.raw_text
                    /\ event_log[k].timestamp = e.timestamp
                    /\ k = <<<<"EVENT", e.source>>,
                             <<e.received_at, e.source_id>>>>

\* a message is delivered a second time, edited: the log holds one entry,
\* with the second text
C11_Witness ==
    /\ Appended({"MessageReceived"})
    /\ event.replaced
    /\ event.calls = 2
    /\ Cardinality(DOMAIN event_log) = 1
    /\ \A k \in DOMAIN event_log : event_log[k].raw_text = "a2"

\* C12: no step changes or removes an entry of the event log.
C12_AppendOnly ==
    [][\A k \in DOMAIN event_log :
          /\ k \in DOMAIN event_log'
          /\ event_log'[k] = event_log[k]
      ]_vars

\* C13: when a MessageClassified (MessageSimilar) event is appended and the
\* log holds another such event of the same source and the same timestamp,
\* the log holds both afterwards.
C13_SequenceKeepsBoth ==
    [][(/\ event'.calls # event.calls
        /\ event'.raised = None
        /\ event'.event.event_type \in {"MessageClassified",
                                        "MessageSimilar"}) =>
          LET e == event'.event
          IN  \A k \in DOMAIN event_log :
                 (/\ event_log[k].event_type = e.event_type
                  /\ SourceOf(event_log[k]) = SourceOf(e)
                  /\ event_log[k].timestamp = e.timestamp
                  /\ event_log[k] # EventItem(e)) =>
                     /\ k \in DOMAIN event_log'
                     /\ event_log'[k] = event_log[k]
                     /\ Cardinality(DOMAIN event_log')
                            = Cardinality(DOMAIN event_log) + 1
      ]_vars

\* C14: every entry of the event log lies in the partition of the source of
\* the message it belongs to.
C14_PartitionBySource ==
    \A k \in DOMAIN event_log :
        /\ k[1] = <<"EVENT", SourceOf(event_log[k])>>
        /\ event_log[k].pk = k[1]

\* C20: every MessageClassified entry of the log has a confidence_score in
\* [0,1] (0..100 hundredths); the constructor raises a validation error
\* exactly for the scores outside of it; create_from_classification never
\* raises and gives the percentage clamped to 0..100, as hundredths.
C20_ConfidenceInUnitInterval ==
    /\ \A k \in DOMAIN event_log :
          event_log[k].event_type = "MessageClassified" =>
              /\ event_log[k].confidence_score >= 0
              /\ event_log[k].confidence_score <= 100
    /\ event.op = "MessageClassified" =>
          /\ event.raised = "ValidationError"
                 <=> (event.input < 0 \/ event.input > 100)
          /\ event.raised = None =>
                 event.event.confidence_score = event.input
    /\ event.op = "create_from_classification" =>
          /\ event.raised = None
          /\ event.event.confidence_score =
                 (IF event.input < 0 THEN 0
                  ELSE IF event.input > 100 THEN 100 ELSE event.input)
          /\ EventItem(event.event) = event_log[EventKey(event.event)]

\* the constructor rejects 1.5 while the log holds the event that
\* create_from_classification made of 150 percent, with score 1.0
C20_Witness ==
    /\ event.op = "MessageClassified"
    /\ event.raised = "ValidationError"
    /\ event.input = 150
    /\ \E k \in DOMAIN event_log :
          /\ event_log[k].event_type = "MessageClassified"
          /\ event_log[k].confidence_score = 100

(***************************************************************************)
(* Further properties of the save path.                                    *)
(***************************************************************************)
\* C15: every item of the table has a confidence between 0 and 1.
C15_ConfidenceNormalized ==
    \A k \in DOMAIN table :
        "confidence" \in DOMAIN table[k] =>
            /\ table[k].confidence >= 0
            /\ table[k].confidence <= 1

\* the call an invocation was started with
CallOf(p) ==
    CHOOSE call \in SaveCalls :
        call.item_data.original_text = item_data[p].original_text

\* whether part occurs in text
Contains(text, part) ==
    \E i \in 1..(Len(text) - Len(part) + 1) :
        SubSeq(text, i, i + Len(part) - 1) = part

\* C16: a message whose first hit scores at least the threshold on an item
\* of the table goes on to update it, and the update stores the status
\* derived from the message's hint in place of the item's status and
\* returns "updated" with it: "completed" for the hint done.
C16_DoneCompletesMatch ==
    [][\A p \in Workers :
          /\ (pc[p] = "idle" /\ pc'[p] \in {"put_item", "update_item"}
                  /\ DOMAIN best_hit'[p] # {}) =>
                LET hit == best_hit'[p]
                IN  (/\ hit.score >= Threshold
                     /\ <<hit.metadata.pk, hit.metadata.sk>> \in DOMAIN table)
                        => pc'[p] = "update_item"
          /\ (pc[p] = "update_item" /\ pc'[p] = "done") =>
                LET hint == CallOf(p).action
                    expected ==
                        CASE hint \in {"done", "Done"} -> "completed"
                          [] hint \in {"start", "Start"} -> "in_progress"
                          [] OTHER -> "open"
                IN  /\ result'[p].action = "updated"
                    /\ result'[p].status = expected
                    /\ table'[TargetOf(p)].status = expected
      ]_vars

\* a message with the hint Done has matched an open item, which is now
\* completed
C16_Witness ==
    \E p \in Workers :
        /\ Returned(p, "updated")
        /\ CallOf(p).action = "Done"
        /\ best_hit[p].score >= Threshold
        /\ similar_item[p].status = "open"
        /\ table[TargetOf(p)].status = "completed"
        /\ result[p].status = "completed"

\* C17: after the update of a matched item that had notes, the item's notes
\* contain the notes it had before.
C17_NotesAppendMerged ==
    [][\A p \in Workers :
          (/\ pc[p] = "update_item" /\ pc'[p] = "done"
           /\ TargetOf(p) \in DOMAIN table
           /\ Get(table[TargetOf(p)], "notes", None) \notin {None, ""}) =>
              /\ table'[TargetOf(p)].notes # None
              /\ Contains(table'[TargetOf(p)].notes,
                          table[TargetOf(p)].notes)
      ]_vars

\* C18: an invocation that was told "no match" by its query creates its
\* item whatever the table holds by the time it writes: its next step puts
\* an item of its name under the key it made, next to the items that are
\* there, and it never turns to an update.
C18_NoMatchAlwaysCreates ==
    [][\A p \in Workers :
          (pc[p] = "put_item" /\ pc'[p] # "put_item") =>
              LET k == <<MakePK(item_data[p].category), sk'[p]>>
              IN  /\ pc'[p] = "index_vector"
                  /\ k \in DOMAIN table'
                  /\ table'[k].name = item_data[p].name
                  /\ table'[k].original_text = item_data[p].original_text
                  /\ \A x \in DOMAIN table \ {k} :
                        x \in DOMAIN table' /\ table'[x] = table[x]
      ]_vars

\* two invocations for one name and category have both queried while the
\* table held no item of the name, both were told "no match" on a vector
\* that would have matched the other's, and both have put their item: the
\* table holds two items of the name
C18_Witness ==
    \E p, q \in Workers :
        /\ p # q
        /\ Named(p) /\ Named(q)
        /\ item_data[p].name = item_data[q].name
        /\ item_data[p].category = item_data[q].category
        /\ cosine_similarity(embedding[p], embedding[q]) >= Threshold
        /\ trace[p].no_such_item /\ trace[q].no_such_item
        /\ similar_item[p] = NoItem /\ similar_item[q] = NoItem
        /\ pc[p] = "index_vector" /\ Returned(q, "created")
        /\ sk[p] # sk[q]
        /\ Cardinality(ItemsNamed(table, item_data[p].category,
                                  item_data[p].name)) = 2

(***************************************************************************)
(* Properties of /merge.                                                   *)
(***************************************************************************)
\* the keys of the source and of the target of the command
FromKey == <<merge.from_item.PK, merge.from_item.SK>>
IntoKey == <<merge.into_item.PK, merge.into_item.SK>>

\* one of the two items the command found has notes to merge
SomeNotes ==
    \/ Truthy(Get(merge.from_item, "notes", None))
    \/ Truthy(Get(merge.into_item, "notes", None))

\* the command has stopped after dying between its two writes
DiedBetweenWrites == merge.pc = "idle" /\ merge.crashed

\* the command that died between its writes was given again and ran through
RanThroughAgain == merge.pc = "idle" /\ merge.again /\ merge.reply = "merged"

C19_WitnessDied ==
    /\ DiedBetweenWrites
    /\ SomeNotes
    /\ FromKey \in DOMAIN table
    /\ table[IntoKey].notes # merge.into_item.notes

(***************************************************************************)
(* Further properties of the save path: the status stored, and the item    *)
(* left by a create whose index write failed.                              *)
(***************************************************************************)
\* the process action calls save_to_dynamodb_with_embedding(result), so the
\* hint is the default "open"
FromProcess(p) == Busy(p) /\ CallOf(p).action = "open"

\* C28: the record an invocation saves has the status derived from the
\* hint, whatever status the classifier gave it.  For a call without a hint,
\* as the process action makes it, that is "open": the item it creates is
\* stored with status "open", and the item it matches is stored with status
\* "open" whatever its status was, "completed" and "in_progress" included.
C28_StatusResetToOpen ==
    [][\A p \in Workers :
          /\ Busy(p)' => item_data'[p].status = derive_status(CallOf(p)'.action)
          /\ (FromProcess(p) /\ pc[p] = "put_item" /\ pc'[p] = "index_vector") =>
                table'[<<MakePK(item_data[p].category), sk'[p]>>].status = "open"
          /\ (FromProcess(p) /\ pc[p] = "update_item" /\ pc'[p] = "done") =>
                /\ table'[TargetOf(p)].status = "open"
                /\ result'[p].status = "open"
      ]_vars

\* a message without a hint, classified as "waiting", has matched an item
\* that was completed: the item is open again
C28_Witness ==
    \E p \in Workers :
        /\ Returned(p, "updated")
        /\ CallOf(p).action = "open"
        /\ CallOf(p).item_data.status = "waiting"
        /\ similar_item[p].status = "completed"
        /\ table[TargetOf(p)].status = "open"

\* the item under key k is in the table, the index has no record of it, and
\* no create is about to index it
Orphaned(tbl, idx, pcs, sks, k) ==
    /\ k \in DOMAIN tbl
    /\ _make_vector_id(k[1], k[2]) \notin DOMAIN idx
    /\ \A q \in Workers : ~(pcs[q] = "index_vector" /\ sks[q] = k[2])

\* the items a similarity query of the save path can return
Findable(tbl, idx) ==
    LET found == UNION {find_similar_item(tbl, idx, c.item_data.category,
                                          vec, Threshold) :
                        c \in {x \in SaveCalls : Truthy(x.item_data.name)},
                        vec \in {VecA, VecB, VecC, VecD}}
    IN  {f.item : f \in {g \in found : DOMAIN g.item # {}}}

\* C30: when the index write of a create fails, the error leaves the save
\* path, the item the create has put stays in the table and the index has no
\* record of it; an item of the table that has no index record and is not
\* about to be indexed by its create is returned by no similarity query,
\* and it stays so for as long as it is in the table.
C30_IndexFailureOrphansItem ==
    [][/\ \A p \in Workers :
             (pc[p] = "index_vector" /\ pc'[p] = "failed") =>
                 LET k == <<MakePK(item_data[p].category), sk[p]>>
                 IN  /\ trace'[p].raised = "IndexWriteFailed"
                     /\ result'[p] = NoResult
                     /\ k \in DOMAIN table' /\ table'[k] = table[k]
                     /\ Orphaned(table', index', pc', sk', k)
       /\ \A k \in DOMAIN table :
             Orphaned(table, index, pc, sk, k) =>
                 /\ table[k] \notin Findable(table, index)
                 /\ k \in DOMAIN table' =>
                       Orphaned(table', index', pc', sk', k)
      ]_vars

(***************************************************************************)
(* Properties of cosine_similarity.                                        *)
(***************************************************************************)
\* every component of the vector is zero (so for the empty list)
AllZero(vec) == \A i \in 1..Len(vec) : vec[i] = 0

\* C22: cosine_similarity returns 0 when one of its arguments is empty or
\* has only zero components, the other being any vector, itself or another
\* zero vector included; the value is below the threshold of the matcher
\* and below every positive threshold.
C22_ZeroNormScoresZero ==
    (Len(cosine.score) > 0 /\ (AllZero(cosine.vec_a) \/ AllZero(cosine.vec_b)))
        => /\ cosine.score[1] = 0
           /\ cosine.score[1] < Threshold
           /\ \A threshold \in 1..10000 : cosine.score[1] < threshold

\* the zero vector of a nameless item was compared with a vector of norm 20
C22_Witness ==
    /\ Len(cosine.score) > 0
    /\ cosine.vec_a = VecA
    /\ cosine.vec_b = ZeroVector
    /\ cosine.score[1] = 0

(***************************************************************************)
(* Properties of the processor Lambda.                                     *)
(***************************************************************************)
\* C21: when TELEGRAM_SECRET_TOKEN holds a secret, a request whose header
\* x-telegram-bot-api-secret-token is not that secret (another value, the
\* empty string, or no header) is answered with status 403 and body
\* "Forbidden", and for that request the handler calls no classifier,
\* writes nothing to the table and sends no message.
C21_WrongSecretForbidden ==
    (/\ webhook.expected_secret # None
     /\ webhook.pc # "idle"
     /\ webhook.header # webhook.expected_secret) =>
        /\ webhook.pc \in {"verify", "returned"}
        /\ webhook.classified = 0
        /\ webhook.writes = 0
        /\ webhook.sent = 0
        /\ table = webhook.before
        /\ webhook.pc = "returned" =>
              /\ webhook.response.statusCode = 403
              /\ webhook.response.body = "Forbidden"

\* a note was posted with a wrong secret after a request with the right one
\* had saved an item: 403, and the table is as that request left it
C21_Witness ==
    /\ webhook.expected_secret = "s3cret"
    /\ webhook.header = "wrong"
    /\ webhook.text = "finish report"
    /\ webhook.pc = "returned"
    /\ webhook.response = Response(403, "Forbidden")
    /\ webhook.requests = 2
    /\ DOMAIN table # {}

(***************************************************************************)
(* Properties of the process action.                                       *)
(***************************************************************************)
\* process_message has returned a record for the invocation
Classified == DOMAIN process.result # {}

\* C25: the process action calls the save path for a classified message
\* exactly when the clamped confidence is 60 or more.  A message of lower
\* confidence leaves the table and the index as they were, and when handle
\* returns it has sent one reply, the low-confidence one.
C25_SaveFromSixty ==
    Classified =>
        /\ HandedOver => process.result.confidence >= 60
        /\ (process.pc \in {"returned", "raised"}
                /\ process.result.confidence >= 60) => HandedOver
        /\ process.result.confidence < 60 =>
              /\ table = process.table
              /\ index = process.index
              /\ \A p \in Workers : pc[p] = "idle"
              /\ process.pc = "returned" =>
                    process.replies = <<"low confidence">>

\* a message of confidence 59 was answered after an earlier message had
\* been saved and indexed
C25_Witness ==
    /\ process.pc = "returned"
    /\ process.result.confidence = 59
    /\ process.replies = <<"low confidence">>
    /\ ~HandedOver
    /\ DOMAIN table # {} /\ DOMAIN index # {}

\* a message of confidence 60 was saved
C25_WitnessSixty ==
    /\ process.pc = "returned"
    /\ process.result.confidence = 60
    /\ process.replies = <<"saved">>
    /\ HandedOver

(***************************************************************************)
(* Properties of the task linker.                                          *)
(***************************************************************************)
\* link_task got past embed_text in the last invocation
Linked == Len(linker.msg_emb) > 0

\* the tasks the last invocation could match: the user's tasks that were not
\* completed and had an embedding
Candidates ==
    {k \in TaskKeys(linker.before, linker.user_id) :
        /\ linker.before[k].status # "completed"
        /\ Len(linker.before[k].embedding) > 0}

\* the score of a candidate against the message, as a cosine of numbers
ScoreOf(k) ==
    similarity_cosine_of_numbers(linker.msg_emb,
                                 linker.before[k].embedding).score

BestScore == IF Candidates = {} THEN 0
             ELSE CHOOSE s \in {ScoreOf(k) : k \in Candidates} :
                     \A k \in Candidates : ScoreOf(k) <= s

\* the last invocation returned matched_task for the task of key k, having
\* set the status of that task and nothing else
Matched(k) ==
    /\ linker.response.statusCode = 200
    /\ "matched_task" \in DOMAIN linker.response.body
    /\ linker.response.body.matched_task = k[2][2]
    /\ table = [linker.before EXCEPT
                   ![k].status = derive_status(linker.action)]

\* the last invocation returned created_task, having added one task
Created ==
    /\ linker.response.statusCode = 200
    /\ "created_task" \in DOMAIN linker.response.body
    /\ \E k \in DOMAIN table \ DOMAIN linker.before :
          /\ DOMAIN table = DOMAIN linker.before \cup {k}
          /\ k = make_task_keys(linker.user_id,
                                linker.response.body.created_task)
          /\ \A j \in DOMAIN linker.before : table[j] = linker.before[j]

\* C23: a candidate task whose score against the message is exactly 0.85,
\* the best score of the invocation, is treated as a match: link_task sets
\* its status and returns matched_task.
C23_ExactThresholdMatches ==
    \A k \in Candidates :
        (Linked /\ ScoreOf(k) = LinkThreshold /\ BestScore = LinkThreshold)
            => Matched(k)

\* C24: link_task returns matched_task for a highest-scoring candidate, with
\* a confidence above 0.85 and only that task's status set, when the best
\* score exceeds 0.85; otherwise it creates exactly one task and returns
\* created_task with a confidence in [0, 1].
C24_BestCandidateOrCreate ==
    Linked =>
        IF BestScore > LinkThreshold
        THEN \E k \in Candidates :
                /\ ScoreOf(k) = BestScore
                /\ Matched(k)
                /\ linker.response.body.confidence > LinkThreshold
        ELSE /\ Created
             /\ linker.response.body.confidence >= 0
             /\ linker.response.body.confidence <= 10000

(***************************************************************************)
(* Properties of common.bedrock_embeddings.                                *)
(***************************************************************************)
\* the last call went to Bedrock first and Bedrock failed
BedrockFailed ==
    /\ embedder.use_bedrock
    /\ embedder.failing > 0
    /\ Len(embedder.providers) > 0

Tried(provider) ==
    \E i \in 1..Len(embedder.providers) : embedder.providers[i] = provider

\* C26: with use_bedrock=True, when the Bedrock call fails OpenAI is
\* attempted; the call does not raise with OpenAI untried.
C26_OpenAIFallback ==
    BedrockFailed => Tried("openai")

\* C27: once embed_text(t) has succeeded in the worker (t is in
\* _embedding_cache), a later embed_text(t) returns that vector and calls no
\* provider.
C27_CacheFirst ==
    (embedder.op = "embed_text" /\ embedder.texts[1] \in DOMAIN embedder.before)
        => /\ embedder.raised = None
           /\ embedder.providers = <<>>
           /\ embedder.result = embedder.before[embedder.texts[1]]

(***************************************************************************)
(* Properties of the index under /delete and /merge.                       *)
(***************************************************************************)
\* the step takes items out of the table
Removes == DOMAIN table' # DOMAIN table /\ DOMAIN table' \subseteq DOMAIN table

\* the first hit of invocation p names an item that was not in the table
\* when the index was queried, and scores at or above the threshold
StaleHit(p) ==
    /\ HasHit(p)
    /\ best_hit[p].score >= Threshold
    /\ ~trace[p].in_store

\* the index records, other than the one invocation p wrote, that score at
\* or above the threshold against its message and whose item is in the table
StoredMatches(p) ==
    {r \in Filtered(index, item_data[p].category) :
        /\ IndexScore(embedding[p], r.Vector) >= Threshold
        /\ <<r.pk, r.sk>> \in DOMAIN table
        /\ r.sk # sk[p]}

\* C29: /delete and /merge take an item out of the table and leave the index
\* as it is; a message whose first index hit is such a stale record scoring
\* at or above the threshold is told "no match" and resolved as "created",
\* whatever other records score at or above the threshold.
C29_StaleRecordHidesMatches ==
    [][/\ Removes => index' = index
       /\ \A p \in Workers :
             /\ (pc[p] = "idle" /\ pc'[p] # "idle" /\ StaleHit(p)')
                   => /\ pc'[p] = "put_item"
                      /\ similar_item'[p] = NoItem
             /\ (pc[p] = "index_vector" /\ pc'[p] = "done" /\ StaleHit(p))
                   => result'[p].action = "created"
      ]_vars

\* /merge has deleted its source item; a later message had that item's
\* record as its first hit and was resolved as "created" although the
\* record of another item, still in the table, scores at or above the
\* threshold against it
C29_Witness ==
    \E p \in Workers :
        /\ Returned(p, "created")
        /\ StaleHit(p)
        /\ merge.reply = "merged"
        /\ <<best_hit[p].metadata.pk, best_hit[p].metadata.sk>> = FromKey
        /\ FromKey \notin DOMAIN table
        /\ StoredMatches(p) # {}

\* the same after /delete, with no /merge given
C29_WitnessDeleted ==
    \E p \in Workers :
        /\ Returned(p, "created")
        /\ StaleHit(p)
        /\ merge.commands = 0
        /\ StoredMatches(p) # {}

====
